---- MODULE Spec2Model ----
(***************************************************************************)
(* Equal-area Table Function (ETF) samplers of etf-rs: the runtime         *)
(* sampling loops of src/primitives.rs, the table compilation              *)
(* (process_table, compute_tail_switch) and the Newton tabulator of        *)
(* src/primitives/util.rs.                                                 *)
(*                                                                         *)
(* Machine types are scaled down so that every word can be enumerated:     *)
(* the unsigned word has U_BITS bits (32 or 64 in the source) and the      *)
(* float has SIGNIFICAND_BITS explicit significand bits (23 or 52 in the   *)
(* source), a sign bit and U_BITS - 1 - SIGNIFICAND_BITS exponent bits.    *)
(* A float is held as the integer number of units 2^-FRAC_BITS it is       *)
(* worth; every arithmetic result is rounded to the nearest float (ties    *)
(* to even), as IEEE 754 arithmetic does.                                  *)
(***************************************************************************)
EXTENDS Integers, Sequences, FiniteSets, TLC

\* T::UInt::BITS (src/num.rs:54, :81), scaled down.
U_BITS == 8
\* P::BITS (src/primitives/partition.rs:149), scaled down: N = 4 cells.
P_BITS == 2
\* T::SIGNIFICAND_BITS (src/num.rs:204, :330), scaled down.
SIGNIFICAND_BITS == 3
\* Weight of the smallest positive float: 2^-FRAC_BITS.
FRAC_BITS == 10

Pow2(n) == 2 ^ n

\* P::SIZE
SIZE == Pow2(P_BITS)
\* T::ONE, in units.
ONE == Pow2(FRAC_BITS)
\* T::UInt::MAX
UMAX == Pow2(U_BITS) - 1
\* The values of a random word.
Words == 0..UMAX

Abs(a) == IF a < 0 THEN -a ELSE a
Min(a, b) == IF a < b THEN a ELSE b
Max(a, b) == IF a > b THEN a ELSE b

-----------------------------------------------------------------------------
(* Unsigned words. *)

\* One bit of a word.
Bit(a, k) == (a \div Pow2(k)) % 2

RECURSIVE BitAndUpTo(_, _, _)
BitAndUpTo(a, b, k) ==
    IF k < 0 THEN 0
    ELSE (IF Bit(a, k) = 1 /\ Bit(b, k) = 1 THEN Pow2(k) ELSE 0) + BitAndUpTo(a, b, k - 1)

\* a & b
BitAnd(a, b) == BitAndUpTo(a, b, U_BITS - 1)

RECURSIVE BitXorUpTo(_, _, _)
BitXorUpTo(a, b, k) ==
    IF k < 0 THEN 0
    ELSE (IF Bit(a, k) # Bit(b, k) THEN Pow2(k) ELSE 0) + BitXorUpTo(a, b, k - 1)

\* a ^ b
BitXor(a, b) == BitXorUpTo(a, b, U_BITS - 1)

\* a << k, the bits shifted out are lost.
Shl(a, k) == (a * Pow2(k)) % Pow2(U_BITS)

\* a >> k on an unsigned word.
Shr(a, k) == a \div Pow2(k)

\* ((self as iN) >> shift) as uN: the word is read as a two's complement
\* number, shifted with sign extension and read back as unsigned.
ArithmeticRightShift(a, shift) ==
    LET signed == IF a >= Pow2(U_BITS - 1) THEN a - Pow2(U_BITS) ELSE a
    IN  (signed \div Pow2(shift)) % Pow2(U_BITS)

-----------------------------------------------------------------------------
(* Floats. *)

\* Nearest integer to a / b (a >= 0, b > 0), ties to even.
RoundHalfEven(a, b) ==
    LET q == a \div b
        r == a % b
    IN  IF 2 * r < b THEN q
        ELSE IF 2 * r > b THEN q + 1
        ELSE IF q % 2 = 0 THEN q ELSE q + 1

\* The spacing of the floats around a / d: the least power of two q such
\* that a / d fits in SIGNIFICAND_BITS + 1 bits of weight q.
RECURSIVE Quantum(_, _, _)
Quantum(a, d, q) ==
    IF a < Pow2(SIGNIFICAND_BITS + 1) * d * q THEN q ELSE Quantum(a, d, 2 * q)

\* The float nearest to n / d units (d > 0).
Fl(n, d) ==
    LET a == Abs(n)
        q == Quantum(a, d, 1)
        m == RoundHalfEven(a, d * q) * q
    IN  IF n < 0 THEN -m ELSE m

\* Is the number of units v a float?
IsFloat(v) == Fl(v, 1) = v

FAdd(a, b) == Fl(a + b, 1)
FSub(a, b) == Fl(a - b, 1)
FMul(a, b) == Fl(a * b, ONE)
\* a / b for b # 0.
FDiv(a, b) == IF b > 0 THEN Fl(a * ONE, b) ELSE Fl(-(a * ONE), -b)
\* self.mul_add(a, b): self * a + b with a single rounding.
MulAdd(self, a, b) == Fl(self * a + b * ONE, ONE)

\* u as T: the nearest float to the integer u.
cast_uint(u) == Fl(u * ONE, 1)
cast_usize(u) == Fl(u * ONE, 1)

\* self.round() as T::UInt: round half away from zero, then a saturating
\* cast to the unsigned word.
round_as_uint(v) ==
    IF v <= 0 THEN 0
    ELSE Min(UMAX, (2 * v + ONE) \div (2 * ONE))

\* The IEEE 754 encoding of a float: sign bit, biased exponent, explicit
\* significand bits.  Exponent field 0 holds the subnormals.
RECURSIVE ExpField(_, _)
ExpField(mag, e) ==
    IF mag < Pow2(SIGNIFICAND_BITS + 1) THEN e ELSE ExpField(mag \div 2, e + 1)

to_bits(v) ==
    LET mag == Abs(v)
        hid == Pow2(SIGNIFICAND_BITS)
        e == IF mag < hid THEN 0 ELSE ExpField(mag, 1)
        m == IF e = 0 THEN mag ELSE (mag \div Pow2(e - 1)) - hid
    IN  (IF v < 0 THEN Pow2(U_BITS - 1) ELSE 0) + e * hid + m

from_bits(b) ==
    LET hid == Pow2(SIGNIFICAND_BITS)
        low == b % Pow2(U_BITS - 1)
        e == low \div hid
        m == low % hid
        mag == IF e = 0 THEN m ELSE (hid + m) * Pow2(e - 1)
    IN  IF b >= Pow2(U_BITS - 1) THEN -mag ELSE mag

\* Float::bitxor: XOR of the float's bit pattern with a word.
bitxor(self, u) == from_bits(BitXor(to_bits(self), u))

-----------------------------------------------------------------------------
(* Univariate functions, tail envelopes and the uniform float. *)

\* Float::gen: a uniform float in [0, 1) made of the SIGNIFICAND_BITS + 1
\* high bits of one random word w.
FloatGen(w) ==
    LET scale == FDiv(ONE, cast_uint(Shl(1, SIGNIFICAND_BITS + 1)))
        r == Shr(w, U_BITS - SIGNIFICAND_BITS - 1)
    IN  FMul(scale, cast_uint(r))

\* UnivariateFn::eval for the probability density functions of the model:
\* "hyp" is 8 / max(|x - mu|, 1) and "lin" is max(0, 8 - 2 |x - mu|); "dom"
\* is 8 / max(|x|, 1) on x <= mu and is not a number beyond mu, outside its
\* domain; "flat" is the constant mu.
FnEval(func, x) ==
    LET ax == Abs(FSub(x, IF func.kind = "dom" THEN 0 ELSE func.mu))
    IN  IF func.kind = "flat" THEN func.mu
        ELSE IF func.kind = "dom" /\ x > func.mu THEN Pow2(30) + 1
        ELSE IF func.kind \in {"hyp", "dom"} THEN FDiv(8 * ONE, Max(ax, ONE))
        ELSE Max(0, FSub(8 * ONE, FMul(2 * ONE, ax)))

\* A test that leaves out the width a of the cell, in place of FnTest.
FnTestUnscaled(func, x, a, b) == FMul(ONE, FnEval(func, x)) > b

\* UnivariateFn::test, the default implementation: a * f(x) > b.
FnTest(func, x, a, b) == FMul(a, FnEval(func, x)) > b

\* Envelope::try_sample, first draw: the candidate of a flat envelope of
\* width env.span that starts at the cut-in.
EnvCandidate(env, w) == FAdd(env.cut_in, FMul(FloatGen(w), env.span))

\* Envelope::try_sample, second draw: the acceptance-rejection check of the
\* candidate x against the probability density function.
EnvAccept(env, func, x, w) == FMul(env.height, FloatGen(w)) <= FnEval(func, x)

-----------------------------------------------------------------------------
(* Table compilation. *)

Variants == {"DistAny", "DistAnyTailed", "DistCentral", "DistCentralTailed",
             "DistSymmetric", "DistSymmetricTailed"}
IsTailed(v) == v \in {"DistAnyTailed", "DistCentralTailed", "DistSymmetricTailed"}
IsSymmetric(v) == v \notin {"DistAny", "DistAnyTailed"}
\* Number of bits of a word given to the sign.
SignBits(v) == IF IsSymmetric(v) THEN 1 ELSE 0

\* (T::UInt::ONE << (T::UInt::BITS - P::BITS - sign bits)) - T::UInt::ONE
MaxSwitch(v) == Shl(1, U_BITS - P_BITS - SignBits(v)) - 1

\* floor(log2(n)) of an integer n >= 1.
RECURSIVE ILog2(_)
ILog2(n) == IF n < 2 THEN 0 ELSE 1 + ILog2(n \div 2)

\* The first k binary digits of log2(m / 2^14) for a significand m in
\* [2^14, 2^15): the significand is squared once per digit.
RECURSIVE LogDigits(_, _)
LogDigits(m, k) ==
    IF k = 0 THEN 0
    ELSE LET sq == (m * m) \div Pow2(14)
         IN  IF sq >= Pow2(15) THEN Pow2(k - 1) + LogDigits(sq \div 2, k - 1)
             ELSE LogDigits(sq, k - 1)

\* log2 of a float w > 0, truncated to a multiple of 2^-FRAC_BITS.
LogTruncated(w) ==
    LET e == ILog2(w)
        m == IF e <= 14 THEN w * Pow2(14 - e) ELSE w \div Pow2(e - 14)
    IN  (e - FRAC_BITS) * ONE + LogDigits(m, FRAC_BITS)

\* Is the float w > 0 a power of two (its logarithm is then exact)?
IsPowerOfTwo(w) == w = Pow2(ILog2(w))

\* The nearest float to a number of units v towards zero, and the next
\* float away from zero.
FloatTowardsZero(v) ==
    LET q == Quantum(Abs(v), 1, 1)
        lo == (Abs(v) \div q) * q
    IN  IF v < 0 THEN -lo ELSE lo
FloatAwayFromZero(v) ==
    LET q == Quantum(Abs(v), 1, 1)
        hi == (Abs(v) \div q) * q + q
    IN  IF v < 0 THEN -hi ELSE hi

\* f32::log2 / f64::log2 of w > 0 rounded to the nearest float.
Log2Nearest(w) == Fl(LogTruncated(w), 1)

\* The values w.log2() may have for w > 0.  The precision of log2 is not
\* specified: the value is exact for a power of two, and otherwise one of
\* the two floats next to the logarithm, the lower one or the upper one.
Log2Lower(w) ==
    LET t == LogTruncated(w)
    IN  IF IsPowerOfTwo(w) THEN t
        ELSE IF t < 0 THEN FloatAwayFromZero(t) ELSE FloatTowardsZero(t)
Log2Upper(w) ==
    LET t == LogTruncated(w)
    IN  IF IsPowerOfTwo(w) THEN t
        ELSE IF t < 0 THEN FloatTowardsZero(t) ELSE FloatAwayFromZero(t)

\* The comparison with a bit loss of two allowed, in place of BitLossWithin.
BitLossWithinTwo(lg) == FSub(Fl(SIGNIFICAND_BITS * ONE, 1), lg) <= 2 * ONE

\* bit_loss <= max_bit_loss for the logarithm lg of w:
\* T::cast_u32(T::SIGNIFICAND_BITS) - lg <= T::ONE.
BitLossWithin(lg) == FSub(Fl(SIGNIFICAND_BITS * ONE, 1), lg) <= ONE

\* bit_loss <= max_bit_loss with the logarithm rounded to nearest; log2(0)
\* is -inf and log2 of a negative number is NaN: the comparison fails.
BitLossOk(w) == w > 0 /\ BitLossWithin(Log2Nearest(w))

\* A weight scaled by the largest fraction of the variants without a sign
\* bit instead of tail_switch, in place of Weight.
WeightOfMaxSwitch(it, tail_switch, i) ==
    FMul(FDiv(it.yinf[i], it.ysup[i]), cast_uint(Shl(1, U_BITS - P_BITS) - 1))

\* w = yinf[i] / ysup[i] * T::cast_uint(tail_switch)
Weight(it, tail_switch, i) ==
    FMul(FDiv(it.yinf[i], it.ysup[i]), cast_uint(tail_switch))

\* One iteration of the loop of process_table, given the outcome ok of the
\* comparison bit_loss <= max_bit_loss.
DatumGiven(x0, it, tail_switch, i, ok) ==
    LET w == Weight(it, tail_switch, i)
    IN  IF ok
        THEN [alpha |-> FDiv(FSub(it.x[i + 1], it.x[i]), w),
              beta |-> FSub(it.x[i], x0),
              wedge_switch |-> round_as_uint(w)]
        ELSE [alpha |-> 0, beta |-> FSub(it.x[i], x0), wedge_switch |-> 0]

\* One iteration of the loop of process_table.
Datum(x0, it, tail_switch, i) ==
    DatumGiven(x0, it, tail_switch, i, BitLossOk(Weight(it, tail_switch, i)))

process_table(x0, it, tail_switch) ==
    [table |-> [i \in 0..SIZE |->
                    IF i < SIZE THEN Datum(x0, it, tail_switch, i)
                    ELSE [alpha |-> 0, beta |-> FSub(it.x[SIZE], x0), wedge_switch |-> 0]],
     scaled_xysup |-> FDiv(FMul(FSub(it.x[1], it.x[0]), it.ysup[0]), cast_uint(tail_switch))]

\* A tail switch computed as for the variants without a sign bit, whatever
\* is_symmetric, in place of compute_tail_switch.
RECURSIVE AreaUpTo(_, _)
compute_tail_switch_unsigned(it, tail_area, is_symmetric) ==
    LET area == AreaUpTo(it, SIZE)
        max_switch == cast_uint(Shl(1, U_BITS - P_BITS) - 1)
    IN  round_as_uint(FMul(max_switch, FDiv(area, FAdd(area, tail_area))))

AreaUpTo(it, n) ==
    IF n = 0 THEN 0
    ELSE FAdd(AreaUpTo(it, n - 1), FMul(FSub(it.x[n], it.x[n - 1]), it.ysup[n - 1]))

compute_tail_switch(it, tail_area, is_symmetric) ==
    LET area == AreaUpTo(it, SIZE)
        max_switch == cast_uint(Shl(1, U_BITS - P_BITS - (IF is_symmetric THEN 1 ELSE 0)) - 1)
    IN  round_as_uint(FMul(max_switch, FDiv(area, FAdd(area, tail_area))))

\* The constructors Dist*::new.
\* fma: whether the crate is built with the "fma" feature.
New(variant, x0, func, it, env, tail_area, fma) ==
    LET ts == IF IsTailed(variant)
              THEN compute_tail_switch(it, tail_area, IsSymmetric(variant))
              ELSE MaxSwitch(variant)
        origin == IF variant \in {"DistSymmetric", "DistSymmetricTailed"} THEN x0 ELSE 0
    IN  [variant |-> variant,
         data |-> process_table(origin, it, ts),
         func |-> func,
         x0 |-> origin,
         tail_envelope |-> env,
         tail_switch |-> ts,
         fma |-> fma]

-----------------------------------------------------------------------------
(* The sampling loop. *)

\* The sampler (immutable once built), the locals of each running call of
\* sample, each caller's random source, the values returned to each caller
\* and the number of words one call may draw before it is cut off (0: the
\* call is not metered).
VARIABLES sampler, loc, rng, out, limit, newton, build

vars == <<sampler, loc, rng, out, limit, newton, build>>

\* No call of newton_tabulation is under way.
Idle == [pc |-> "idle"]

Threads == DOMAIN loc

\* u_mask with no bit left for the sign.
UMaskUnsigned(v) == Shl(1, U_BITS - P_BITS) - 1

\* u_mask
UMask(v) == Shl(1, U_BITS - P_BITS - SignBits(v)) - 1
\* i_mask
IMask == Shl(1, P_BITS) - 1
\* s_mask
SMask == Shl(1, U_BITS - 1)

\* let u = r & u_mask;
ExtractU(v, r) == BitAnd(r, UMask(v))

\* Shifted with a logical shift in place of the arithmetic one.
ShiftedLogical(v, r) ==
    IF IsSymmetric(v) THEN Shr(r, U_BITS - P_BITS - 1) ELSE Shr(r, U_BITS - P_BITS)

\* The word after the shift that brings the index to the low bits.
Shifted(v, r) ==
    IF IsSymmetric(v) THEN ArithmeticRightShift(r, U_BITS - P_BITS - 1)
    ELSE Shr(r, U_BITS - P_BITS)

\* ExtractI without the mask of the symmetric variants.
ExtractIUnmasked(v, r) == Shifted(v, r)

\* let i = (r >> (BITS - P::BITS)).as_usize();  or  (r & i_mask).as_usize()
\* after the arithmetic shift in the symmetric variants.
ExtractI(v, r) ==
    IF IsSymmetric(v) THEN BitAnd(Shifted(v, r), IMask) ELSE Shifted(v, r)

\* let s = r & s_mask; on the shifted word (symmetric variants only).
ExtractS(v, r) == IF IsSymmetric(v) THEN BitAnd(Shifted(v, r), SMask) ELSE 0

\* if u <= d.wedge_switch
FastPath(d, u) == u <= d.wedge_switch

\* TailCheck with the comparison made inclusive.
TailCheckInclusive(sm, u) == IsTailed(sm.variant) /\ u >= sm.tail_switch

\* if u > self.tail_switch (tailed variants only)
TailCheck(sm, u) == IsTailed(sm.variant) /\ u > sm.tail_switch

\* The candidate of the rectangular fast path, with or without the fma feature.
FastCandidate(sm, d, u) ==
    IF sm.fma THEN MulAdd(cast_uint(u), d.alpha, d.beta)
    ELSE FAdd(FMul(d.alpha, cast_uint(u)), d.beta)

\* TailCandidate with the operands of the subtraction exchanged.
TailCandidateSwapped(sm, x) ==
    IF sm.variant = "DistSymmetricTailed" THEN FSub(sm.x0, x) ELSE -x

\* The candidate handed to the sign fold on the tail path: x - self.x0 in
\* the Symmetric variants, x itself otherwise.
TailCandidate(sm, x) ==
    IF sm.variant = "DistSymmetricTailed" THEN FSub(x, sm.x0) ELSE x

\* Fold without the sign in the Central variants.
FoldCentralUnsigned(sm, c, s) ==
    IF sm.variant \in {"DistAny", "DistAnyTailed", "DistCentral", "DistCentralTailed"} THEN c
    ELSE FAdd(sm.x0, bitxor(c, s))

\* Sign fold and translation of a candidate: T::bitxor(c, s) in the
\* symmetric variants, self.x0 + ... in the Symmetric ones.
Fold(sm, c, s) ==
    IF ~IsSymmetric(sm.variant) THEN c
    ELSE IF sm.variant \in {"DistCentral", "DistCentralTailed"} THEN bitxor(c, s)
    ELSE FAdd(sm.x0, bitxor(c, s))

\* The locals of a call of sample that has not drawn a word yet.
Fresh ==
    [pc |-> "loop", u |-> 0, i |-> 0, s |-> 0, cand |-> 0, ret |-> 0,
     path |-> "none", tails |-> 0, wedges |-> 0, nwords |-> 0, niter |-> 0]

\* A count that moves at the start of an iteration only.
TickPerIteration(l) ==
    IF limit = 0 THEN 0 ELSE IF l.pc = "loop" THEN l.nwords + 1 ELSE l.nwords

\* The count of words after one more draw.
Tick(l) == IF limit = 0 THEN 0 ELSE l.nwords + 1

\* Start of an iteration: draw r, split it, and take the fast path, the
\* tail branch or the wedge branch.  An index beyond the table panics.
LoopStep(sm, l, r) ==
    LET u == ExtractU(sm.variant, r)
        i == ExtractI(sm.variant, r)
        s == ExtractS(sm.variant, r)
        it == [l EXCEPT !.u = u, !.i = i, !.s = s, !.tails = 0, !.wedges = 0,
                        !.cand = 0, !.ret = 0, !.path = "none",
                        !.nwords = Tick(l),
                        !.niter = IF limit = 0 THEN 0 ELSE l.niter + 1]
    IN  IF i \notin DOMAIN sm.data.table THEN [it EXCEPT !.pc = "panic"]
        ELSE LET d == sm.data.table[i]
             IN  IF FastPath(d, u)
                 THEN [it EXCEPT !.pc = "done", !.path = "fast",
                                 !.cand = FastCandidate(sm, d, u),
                                 !.ret = Fold(sm, FastCandidate(sm, d, u), s)]
                 ELSE IF TailCheck(sm, u)
                 THEN [it EXCEPT !.pc = "tail", !.tails = 1]
                 ELSE [it EXCEPT !.pc = "wedge"]

\* Restart without the jump to the start of the loop: the failed test is
\* made again with a new float and the same u and i.
RestartSameWord(l, path) == [l EXCEPT !.path = path]

\* The locals kept when an iteration ends without a value (continue).
Restart(l, path) ==
    [l EXCEPT !.pc = "loop", !.u = 0, !.i = 0, !.s = 0, !.cand = 0, !.path = path]

\* try_sample, first word: the envelope's candidate.
TailDrawStep(sm, l, w) ==
    [l EXCEPT !.pc = "tail_accept", !.cand = EnvCandidate(sm.tail_envelope, w),
              !.nwords = Tick(l)]

\* try_sample, second word: Some(x) returns the folded value, None restarts.
TailAcceptStep(sm, l, w) ==
    LET x == l.cand
        m == [l EXCEPT !.nwords = Tick(l)]
    IN  IF EnvAccept(sm.tail_envelope, sm.func, x, w)
        THEN [m EXCEPT !.pc = "done", !.path = "tail",
                       !.cand = TailCandidate(sm, x),
                       !.ret = Fold(sm, TailCandidate(sm, x), l.s)]
        ELSE Restart(m, "tail")

\* Wedge sampling: one float is drawn, the candidate is tested against the
\* function.  Reading table[i + 1] beyond the table panics.
WedgeStep(sm, l, w) ==
    LET m == [l EXCEPT !.nwords = Tick(l), !.wedges = 1]
    IN  IF (l.i + 1) \notin DOMAIN sm.data.table THEN [m EXCEPT !.pc = "panic"]
        ELSE LET d == sm.data.table[l.i]
                 dx == FSub(sm.data.table[l.i + 1].beta, d.beta)
                 delta_x == FAdd(d.beta, FMul(FloatGen(w), dx))
                 x == IF sm.variant \in {"DistSymmetric", "DistSymmetricTailed"}
                      THEN FAdd(sm.x0, delta_x) ELSE delta_x
             IN  IF FnTest(sm.func, x, dx, FMul(cast_uint(l.u), sm.data.scaled_xysup))
                 THEN [m EXCEPT !.pc = "done", !.path = "wedge", !.cand = delta_x,
                                !.ret = Fold(sm, delta_x, l.s)]
                 ELSE Restart(m, "wedge")

-----------------------------------------------------------------------------
(* Random sources. *)

\* Words that differ in the bits Float::gen keeps.
GenWords == {Shl(k, U_BITS - SIGNIFICAND_BITS - 1) : k \in 0..(Pow2(SIGNIFICAND_BITS + 1) - 1)}

\* RngCore::next_u32 / next_u64: the words the source of thread t may give
\* next.  A source with a recorded stream replays it; a source without one
\* may give any word (at a draw of Float::gen, any of the words that differ
\* in the bits it keeps).
NextWords(t, site) ==
    IF rng[t].seq = <<>> THEN (IF site = "gen" THEN GenWords ELSE Words)
    ELSE IF rng[t].pos < Len(rng[t].seq) THEN {rng[t].seq[rng[t].pos + 1]}
    ELSE {}

\* Drawn for threads that draw from one source between them: a draw of one
\* thread moves every thread's position in the stream.
DrawnShared(t, w, site) ==
    [k \in DOMAIN rng |->
        [rng[k] EXCEPT !.pos = IF rng[k].seq = <<>> THEN 0 ELSE @ + 1,
                       !.last = IF limit = 0 THEN w ELSE 0,
                       !.site = IF limit = 0 THEN site ELSE "none"]]

\* The source of thread t after it has given the word w at a draw of kind
\* site ("r" for UInt::gen at the start of an iteration, "gen" for
\* Float::gen); no other source changes.  The last word is kept for the
\* unmetered calls only.
Drawn(t, w, site) ==
    [rng EXCEPT ![t].pos = IF rng[t].seq = <<>> THEN 0 ELSE @ + 1,
                ![t].last = IF limit = 0 THEN w ELSE 0,
                ![t].site = IF limit = 0 THEN site ELSE "none"]

\* A source that has given no word yet and replays the stream seq (any
\* word at every draw when seq is empty).
Source(seq) == [seq |-> seq, pos |-> 0, last |-> 0, site |-> "none"]

\* A metered call draws at most limit words.
Metered(t) == limit = 0 \/ loc[t].nwords < limit

-----------------------------------------------------------------------------
(* Actions: one per draw of a random word, and the caller's next call. *)

SampleLoop(t, w) ==
    /\ loc[t].pc = "loop"
    /\ Metered(t)
    /\ w \in NextWords(t, "r")
    /\ loc' = [loc EXCEPT ![t] = LoopStep(sampler, loc[t], w)]
    /\ rng' = Drawn(t, w, "r")
    /\ UNCHANGED <<sampler, newton, build, out, limit>>

TailDraw(t, w) ==
    /\ loc[t].pc = "tail"
    /\ Metered(t)
    /\ w \in NextWords(t, "gen")
    /\ loc' = [loc EXCEPT ![t] = TailDrawStep(sampler, loc[t], w)]
    /\ rng' = Drawn(t, w, "gen")
    /\ UNCHANGED <<sampler, newton, build, out, limit>>

TailAccept(t, w) ==
    /\ loc[t].pc = "tail_accept"
    /\ Metered(t)
    /\ w \in NextWords(t, "gen")
    /\ loc' = [loc EXCEPT ![t] = TailAcceptStep(sampler, loc[t], w)]
    /\ rng' = Drawn(t, w, "gen")
    /\ UNCHANGED <<sampler, newton, build, out, limit>>

Wedge(t, w) ==
    /\ loc[t].pc = "wedge"
    /\ Metered(t)
    /\ w \in NextWords(t, "gen")
    /\ loc' = [loc EXCEPT ![t] = WedgeStep(sampler, loc[t], w)]
    /\ rng' = Drawn(t, w, "gen")
    /\ UNCHANGED <<sampler, newton, build, out, limit>>

\* sample has returned: the caller takes the value and calls sample again.
\* The values returned from a recorded stream are kept in out.
Call(t) ==
    /\ loc[t].pc = "done"
    /\ out' = [out EXCEPT ![t] = IF rng[t].seq = <<>> THEN @ ELSE Append(@, loc[t].ret)]
    /\ loc' = [loc EXCEPT ![t] = Fresh]
    /\ UNCHANGED <<sampler, newton, build, rng, limit>>

Next ==
    \E t \in Threads :
        \/ \E w \in NextWords(t, "r") : SampleLoop(t, w)
        \/ \E w \in NextWords(t, "gen") : TailDraw(t, w)
        \/ \E w \in NextWords(t, "gen") : TailAccept(t, w)
        \/ \E w \in NextWords(t, "gen") : Wedge(t, w)
        \/ Call(t)

-----------------------------------------------------------------------------
(* Tables, functions and samplers of the model. *)

\* Words one metered call may draw.
MaxWords == 4

\* T::ONE_HALF
ONE_HALF == ONE \div 2

\* An initialisation table from node and ordinate lists given in halves,
\* translated by x0.
Tab(x0, xs, yinfs, ysups) ==
    [x |-> [k \in 0..SIZE |-> x0 + xs[k + 1] * ONE_HALF],
     yinf |-> [k \in 0..(SIZE - 1) |-> yinfs[k + 1] * ONE_HALF],
     ysup |-> [k \in 0..(SIZE - 1) |-> ysups[k + 1] * ONE_HALF]]

\* Equal-area tables (every rectangle has area 8) of "hyp" on [0, 8], of
\* "lin" on [0, 4] (last cell degenerate), of "lin" with yinf = 0 in every
\* cell (all cells degenerate) and of "lin" on [-2, 2].
TabHyp(x0) == Tab(x0, <<0, 2, 4, 8, 16>>, <<16, 8, 4, 2>>, <<16, 16, 8, 4>>)
TabLin(x0) == Tab(x0, <<0, 2, 4, 6, 8>>, <<12, 8, 4, 0>>, <<16, 16, 16, 16>>)
TabDegenerate(x0) == Tab(x0, <<0, 2, 4, 6, 8>>, <<0, 0, 0, 0>>, <<16, 16, 16, 16>>)
TabTwoSided == Tab(0, <<-4, -2, 0, 2, 4>>, <<8, 12, 12, 8>>, <<16, 16, 16, 16>>)

\* A flat envelope of height 1 and width 4 beyond the last node of a table.
EnvOf(it) == [cut_in |-> it.x[SIZE], span |-> 4 * ONE, height |-> ONE]

\* Pairs of a function and a table of it about the origin x0.
Shapes(x0) ==
    {<<[kind |-> "hyp", mu |-> x0], TabHyp(x0)>>,
     <<[kind |-> "lin", mu |-> x0], TabLin(x0)>>,
     <<[kind |-> "lin", mu |-> x0], TabDegenerate(x0)>>}

\* The origins, tail areas and builds the samplers of the model are made with.
Origins(v) == IF v \in {"DistSymmetric", "DistSymmetricTailed"} THEN {0, 4 * ONE} ELSE {0}
TailAreas(v, func) ==
    IF ~IsTailed(v) THEN {0}
    ELSE IF func.kind = "hyp" THEN {4 * ONE, 32 * ONE} ELSE {4 * ONE}
Builds(func) == IF func.kind = "hyp" THEN BOOLEAN ELSE {FALSE}

\* The samplers of the model.
Samplers ==
    UNION {UNION {UNION {UNION {
        {New(v, x0, sh[1], sh[2], EnvOf(sh[2]), ta, fma) : fma \in Builds(sh[1])} :
            ta \in TailAreas(v, sh[1])} : sh \in Shapes(x0)} : x0 \in Origins(v)} :
                v \in Variants}
    \cup {New(v, 0, [kind |-> "lin", mu |-> 0], TabTwoSided, EnvOf(TabTwoSided),
              IF IsTailed(v) THEN 4 * ONE ELSE 0, FALSE) : v \in {"DistAny", "DistAnyTailed"}}

Init ==
    /\ sampler \in Samplers
    /\ loc = [t \in {1} |-> Fresh]
    /\ rng = [t \in {1} |-> Source(<<>>)]
    /\ out = [t \in {1} |-> <<>>]
    /\ limit = MaxWords
    /\ newton = Idle
    /\ build = Idle

Spec == Init /\ [][Next]_vars

\* The word Float::gen cannot tell from w: w with the bits it drops cleared.
GenClass(w) ==
    Shl(Shr(w, U_BITS - SIGNIFICAND_BITS - 1), U_BITS - SIGNIFICAND_BITS - 1)

\* The word the source of thread t gave last is w (at a draw of Float::gen,
\* a word that Float::gen cannot tell from w).
DrawsWord(t, w) ==
    \/ rng[t].site = "r" /\ rng[t].last = w
    \/ rng[t].site = "gen" /\ rng[t].last = GenClass(w)

\* Every word value keeps recurring in the stream of the random source.
StreamFair == \A w \in Words : []<>DrawsWord(1, w)

\* The samplers of the unmetered calls: those over the tables with a
\* degenerate cell and over the two-sided table.
FairSamplers == {sm \in Samplers : sm.func.kind = "lin" /\ sm.x0 = 0}

\* A caller that calls sample for ever, each call drawing as many words as
\* it needs, from a source in which every word value keeps recurring.
FairInit ==
    /\ sampler \in FairSamplers
    /\ loc = [t \in {1} |-> Fresh]
    /\ rng = [t \in {1} |-> Source(<<>>)]
    /\ out = [t \in {1} |-> <<>>]
    /\ limit = 0
    /\ newton = Idle
    /\ build = Idle

FairSpec ==
    FairInit /\ [][Next]_vars /\ (\A t \in {1} : WF_vars(Call(t))) /\ StreamFair

\* Words of a recorded stream.
MaxStream == 5

\* A recorded stream: the first MaxStream words of the sequence that starts
\* at seed and advances by step.
StreamOf(seed, step) == [k \in 1..MaxStream |-> (seed + (k - 1) * step) % Pow2(U_BITS)]

\* The recorded streams of the model.
Streams == {StreamOf(63, 61), StreamOf(255, 199), StreamOf(127, 128)}

\* The samplers shared between threads.
ThreadSamplers == {sm \in Samplers : sm.variant = "DistSymmetricTailed"}

\* Two threads call sample on one sampler for ever, each drawing from a
\* source of its own that replays a recorded stream.
ThreadInit ==
    /\ sampler \in ThreadSamplers
    /\ loc = [t \in {1, 2} |-> Fresh]
    /\ rng \in {[t \in {1, 2} |-> Source(IF t = 1 THEN a ELSE b)] : a \in Streams, b \in Streams}
    /\ out = [t \in {1, 2} |-> <<>>]
    /\ limit = 0
    /\ newton = Idle
    /\ build = Idle

ThreadSpec == ThreadInit /\ [][Next]_vars

\* One draw of a call of sample with locals l: the step of the code at l.pc.
StepOn(sm, l, w) ==
    CASE l.pc = "loop" -> LoopStep(sm, l, w)
      [] l.pc = "tail" -> TailDrawStep(sm, l, w)
      [] l.pc = "tail_accept" -> TailAcceptStep(sm, l, w)
      [] l.pc = "wedge" -> WedgeStep(sm, l, w)
      [] OTHER -> l

\* The values returned, one call of sample after the other, to a caller
\* that runs alone and whose source gives the words seq[k], seq[k + 1], ...
\* when the call under way has the locals l.
RECURSIVE SampleAlone(_, _, _, _)
SampleAlone(sm, l, seq, k) ==
    IF k > Len(seq) THEN <<>>
    ELSE LET m == StepOn(sm, l, seq[k])
         IN  IF m.pc = "done" THEN <<m.ret>> \o SampleAlone(sm, Fresh, seq, k + 1)
             ELSE SampleAlone(sm, m, seq, k + 1)

\* The samplers of the symmetric variants.
PairSamplers == {sm \in Samplers : IsSymmetric(sm.variant)}

\* Two runs of sample on one sampler, from sources whose streams differ in
\* the top bit of the words drawn as r, and in nothing else.
PairInit ==
    /\ sampler \in PairSamplers
    /\ loc = [t \in {1, 2} |-> Fresh]
    /\ rng = [t \in {1, 2} |-> Source(<<>>)]
    /\ out = [t \in {1, 2} |-> <<>>]
    /\ limit = MaxWords
    /\ newton = Idle
    /\ build = Idle

\* The word the second run draws when the first draws w.
Flipped(w) == IF loc[2].pc = "loop" THEN BitXor(w, SMask) ELSE w

\* Both runs draw their next word.
PairDraw(w) ==
    /\ \A t \in {1, 2} : loc[t].pc \in {"loop", "tail", "tail_accept", "wedge"} /\ Metered(t)
    /\ w \in NextWords(1, IF loc[1].pc = "loop" THEN "r" ELSE "gen")
    /\ loc' = [t \in {1, 2} |->
                  StepOn(sampler, loc[t], IF t = 1 THEN w ELSE Flipped(w))]
    /\ UNCHANGED <<sampler, newton, build, rng, out, limit>>

\* Both runs have returned: both callers call sample again.
PairCall ==
    /\ \A t \in {1, 2} : loc[t].pc = "done"
    /\ loc' = [t \in {1, 2} |-> Fresh]
    /\ UNCHANGED <<sampler, newton, build, rng, out, limit>>

PairNext == (\E w \in Words : PairDraw(w)) \/ PairCall

PairSpec == PairInit /\ [][PairNext]_vars

-----------------------------------------------------------------------------
(* Floats with infinities and NaN, for the Newton tabulation. *)

\* T::INFINITY and a NaN; -INF is the negative infinity.
INF == Pow2(30)
NAN == Pow2(30) + 1

\* The largest finite float: the exponent field of all ones is kept for
\* the infinities and NaN.
MAXF ==
    (Pow2(SIGNIFICAND_BITS + 1) - 1) * Pow2(Pow2(U_BITS - 1 - SIGNIFICAND_BITS) - 3)

Finite(v) == Abs(v) < INF
Sgn(v) == IF v < 0 THEN -1 ELSE 1

\* A rounded result, or the infinity of its sign when it is out of range.
Ovf(v) == IF v > MAXF THEN INF ELSE IF v < -MAXF THEN -INF ELSE v

\* Add, Neg, Sub, Mul and Div of IEEE 754.  A zero divisor is +0: the zeros
\* the tabulation divides by come from exact cancellations.
XAdd(a, b) ==
    IF a = NAN \/ b = NAN THEN NAN
    ELSE IF ~Finite(a) THEN (IF ~Finite(b) /\ b # a THEN NAN ELSE a)
    ELSE IF ~Finite(b) THEN b
    ELSE Ovf(Fl(a + b, 1))

XNeg(a) == IF a = NAN THEN NAN ELSE -a

XSub(a, b) == XAdd(a, XNeg(b))

XMul(a, b) ==
    IF a = NAN \/ b = NAN THEN NAN
    ELSE IF a = 0 \/ b = 0 THEN (IF Finite(a) /\ Finite(b) THEN 0 ELSE NAN)
    ELSE IF ~Finite(a) \/ ~Finite(b) THEN Sgn(a) * Sgn(b) * INF
    ELSE IF Abs(a) > INF \div Abs(b) THEN Sgn(a) * Sgn(b) * INF
    ELSE Ovf(Fl(a * b, ONE))

XDiv(a, b) ==
    IF a = NAN \/ b = NAN THEN NAN
    ELSE IF ~Finite(a) THEN (IF ~Finite(b) THEN NAN ELSE Sgn(a) * Sgn(b) * INF)
    ELSE IF ~Finite(b) THEN 0
    ELSE IF b = 0 THEN (IF a = 0 THEN NAN ELSE Sgn(a) * INF)
    ELSE Ovf(FDiv(a, b))

\* f32::min and f32::max: the other operand when one is NaN.
XMin(a, b) == IF a = NAN THEN b ELSE IF b = NAN THEN a ELSE Min(a, b)
XMax(a, b) == IF a = NAN THEN b ELSE IF b = NAN THEN a ELSE Max(a, b)

\* The comparisons of PartialOrd: false when an operand is NaN.
XLt(a, b) == a # NAN /\ b # NAN /\ a < b
XGt(a, b) == XLt(b, a)

-----------------------------------------------------------------------------
(* newton_tabulation. *)

\* UnivariateFn::eval of the derivative df of the functions of the model.
DfEval(func, x) ==
    LET d == FSub(x, IF func.kind = "dom" THEN 0 ELSE func.mu)
        ax == Abs(d)
    IN  IF func.kind = "dom" /\ x > func.mu THEN NAN
        ELSE IF func.kind \in {"hyp", "dom"}
        THEN (IF ax <= ONE THEN 0 ELSE -Sgn(d) * FDiv(8 * ONE, FMul(ax, ax)))
        ELSE (IF d = 0 \/ ax >= 4 * ONE THEN 0 ELSE -Sgn(d) * 2 * ONE)

\* The (x, y) pairs of the listed extrema that lie within the partition.
Extrema(func, x_extrema, x) ==
    SelectSeq([k \in 1..Len(x_extrema) |->
                  [x |-> x_extrema[k], y |-> FnEval(func, x_extrema[k])]],
              LAMBDA e : e.x > x[0] /\ e.x < x[SIZE])

\* The values and derivatives at the nodes; the derivative is taken as zero
\* at the two boundary nodes.
NodeValues(func, x) == [i \in 0..SIZE |-> FnEval(func, x[i])]
NodeSlopes(df, x) == [i \in 0..SIZE |-> IF i \in {0, SIZE} THEN 0 ELSE DfEval(df, x[i])]

\* The while-let loop over the cached extremum of the cell between lo and
\* hi: extrema are consumed while they lie in the cell, and the bound cur.y
\* is replaced by an extremum beyond it (above it, or below it when the
\* infimum is sought).  cur.k is the cursor into the extrema.
RECURSIVE ScanExtrema(_, _, _, _, _)
ScanExtrema(ext, lo, hi, cur, infimum) ==
    IF cur.k > Len(ext) THEN cur
    ELSE LET e == ext[cur.k]
             beyond == IF infimum THEN XLt(e.y, cur.y) ELSE XGt(e.y, cur.y)
         IN  IF (e.x > lo) # (e.x > hi)
             THEN ScanExtrema(ext, lo, hi,
                              [k |-> cur.k + 1,
                               y |-> IF beyond THEN e.y ELSE cur.y,
                               hit |-> cur.hit \/ beyond], infimum)
             ELSE cur

\* The supremum of every cell from cell i on, with its partial derivatives
\* with respect to the left and right nodes, the cursor standing at k.
RECURSIVE SupCells(_, _, _, _, _, _)
SupCells(x, y, dy_dx, ext, i, k) ==
    IF i = SIZE THEN <<>>
    ELSE LET node == IF XGt(y[i], y[i + 1])
                     THEN [ysup |-> y[i], dysup_dxl |-> dy_dx[i], dysup_dxr |-> 0]
                     ELSE [ysup |-> y[i + 1], dysup_dxl |-> 0, dysup_dxr |-> dy_dx[i + 1]]
             sc == ScanExtrema(ext, x[i], x[i + 1],
                               [k |-> k, y |-> node.ysup, hit |-> FALSE], FALSE)
             cell == IF sc.hit THEN [ysup |-> sc.y, dysup_dxl |-> 0, dysup_dxr |-> 0]
                     ELSE node
         IN  <<cell>> \o SupCells(x, y, dy_dx, ext, i + 1, sc.k)

\* The infimum of every cell from cell i on, the cursor standing at k.
RECURSIVE InfCells(_, _, _, _, _)
InfCells(x, y, ext, i, k) ==
    IF i = SIZE THEN <<>>
    ELSE LET node == IF XGt(y[i], y[i + 1]) THEN y[i + 1] ELSE y[i]
             sc == ScanExtrema(ext, x[i], x[i + 1],
                               [k |-> k, y |-> node, hit |-> FALSE], TRUE)
         IN  <<sc.y>> \o InfCells(x, y, ext, i + 1, sc.k)

\* max_area, min_area and sum_area over the cells 0..i-1.
RECURSIVE Areas(_, _)
Areas(area, i) ==
    IF i = 0 THEN [max |-> 0, min |-> INF, sum |-> 0]
    ELSE LET a == Areas(area, i - 1)
         IN  [max |-> XMax(a.max, area[i - 1]),
              min |-> XMin(a.min, area[i - 1]),
              sum |-> XAdd(a.sum, area[i - 1])]

\* The first half of an iteration on the nodes x: values, suprema, areas.
Evaluate(p, x) ==
    LET y == NodeValues(p.func, x)
        dy_dx == NodeSlopes(p.func, x)
        ext == Extrema(p.func, p.x_extrema, x)
        sup == SupCells(x, y, dy_dx, ext, 0, 1)
        area == [i \in 0..(SIZE - 1) |->
                    XMul(sup[i + 1].ysup, Abs(XSub(x[i + 1], x[i])))]
        a == Areas(area, SIZE)
    IN  [y |-> y, ext |-> ext,
         ysup |-> [i \in 0..(SIZE - 1) |-> sup[i + 1].ysup],
         dysup_dxl |-> [i \in 0..(SIZE - 1) |-> sup[i + 1].dysup_dxl],
         dysup_dxr |-> [i \in 0..(SIZE - 1) |-> sup[i + 1].dysup_dxr],
         area |-> area,
         max_area |-> a.max, min_area |-> a.min,
         mean_area |-> XDiv(a.sum, cast_usize(SIZE))]

\* A convergence test that accepts equality, in place of Converged.
ConvergedInclusive(p, ev) ==
    LET spread == XSub(ev.max_area, ev.min_area)
        allowed == XMul(p.tolerance, ev.mean_area)
    IN  spread # NAN /\ allowed # NAN /\ spread <= allowed

\* if (max_area - min_area) < tolerance * mean_area
Converged(p, ev) ==
    XLt(XSub(ev.max_area, ev.min_area), XMul(p.tolerance, ev.mean_area))

\* A table returned on the initial partition of the call, in place of
\* Normalized.
NormalizedAtInit(x, ev) ==
    LET x0 == newton.p.x_init
        e0 == Evaluate(newton.p, x0)
        inf == InfCells(x0, e0.y, e0.ext, 0, 1)
    IN  [x |-> x0,
         ysup |-> [i \in 0..(SIZE - 1) |->
                      XDiv(ev.max_area, Abs(XSub(x0[i + 1], x0[i])))],
         yinf |-> [i \in 0..(SIZE - 1) |-> inf[i + 1]]]

\* The table returned at convergence: every ysup raised to max_area over
\* the width of its cell, and the infimum of every cell.
Normalized(x, ev) ==
    LET inf == InfCells(x, ev.y, ev.ext, 0, 1)
    IN  [x |-> x,
         ysup |-> [i \in 0..(SIZE - 1) |->
                      XDiv(ev.max_area, Abs(XSub(x[i + 1], x[i])))],
         yinf |-> [i \in 0..(SIZE - 1) |-> inf[i + 1]]]

\* The residuals and the three diagonals of the Jacobian.
Residuals(x, ev) ==
    LET w(i) == XSub(x[i + 1], x[i])
        rows == 0..(SIZE - 2)
    IN  [minus_s |-> [i \in rows |->
                         XSub(XMul(ev.ysup[i], w(i)), XMul(ev.ysup[i + 1], w(i + 1)))],
         ds_dxl |-> [i \in rows |-> XSub(ev.ysup[i], XMul(w(i), ev.dysup_dxl[i]))],
         ds_dxc |-> [i \in rows |->
                        XSub(XSub(XMul(w(i + 1), ev.dysup_dxl[i + 1]),
                                  XMul(w(i), ev.dysup_dxr[i])),
                             XAdd(ev.ysup[i], ev.ysup[i + 1]))],
         ds_dxr |-> [i \in rows |->
                        XAdd(ev.ysup[i + 1], XMul(w(i + 1), ev.dysup_dxr[i + 1]))]]

\* solve_tma, first loop: the diagonal b and the right-hand side rhs after
\* the elimination of the sub-diagonal in the rows 1..i.
RECURSIVE Eliminated(_, _, _, _, _)
Eliminated(a, b, c, rhs, i) ==
    IF i = 0 THEN [b |-> b, rhs |-> rhs]
    ELSE LET e == Eliminated(a, b, c, rhs, i - 1)
             pivot == XDiv(a[i], e.b[i - 1])
         IN  [b |-> [e.b EXCEPT ![i] = XSub(@, XMul(pivot, c[i - 1]))],
              rhs |-> [e.rhs EXCEPT ![i] = XSub(@, XMul(pivot, e.rhs[i - 1]))]]

\* solve_tma, second loop: the solution of row i of the bi-diagonal system.
RECURSIVE BackSolved(_, _, _, _, _)
BackSolved(b, c, rhs, m, i) ==
    IF i = m - 1 THEN XDiv(rhs[i], b[i])
    ELSE XDiv(XSub(rhs[i], XMul(c[i], BackSolved(b, c, rhs, m, i + 1))), b[i])

solve_tma(a, b, c, rhs) ==
    LET m == SIZE - 1
        e == Eliminated(a, b, c, rhs, m - 1)
    IN  [i \in 0..(m - 1) |-> BackSolved(e.b, c, e.rhs, m, i)]

\* A clamp of every node between the nodes x[i - 1] and x[i + 1] of before
\* the update step, in place of Clamped.
RECURSIVE ClampedFormer(_, _, _, _)
ClampedFormer(x, dx, relaxation, i) ==
    IF i = 0 THEN x
    ELSE LET z == ClampedFormer(x, dx, relaxation, i - 1)
             up == x[i + 1] > x[i - 1]
             xmin == IF up THEN x[i - 1] ELSE x[i + 1]
             xmax == IF up THEN x[i + 1] ELSE x[i - 1]
             xi == XAdd(x[i], XMul(relaxation, dx[i - 1]))
         IN  [z EXCEPT ![i] = XMax(XMin(xi, xmax), xmin)]

\* The nodes after the updates of the nodes 1..i: each is moved by
\* relaxation * dx and kept between x[i - 1], already updated, and x[i + 1].
RECURSIVE Clamped(_, _, _, _)
Clamped(x, dx, relaxation, i) ==
    IF i = 0 THEN x
    ELSE LET z == Clamped(x, dx, relaxation, i - 1)
             up == z[i + 1] > z[i - 1]
             xmin == IF up THEN z[i - 1] ELSE z[i + 1]
             xmax == IF up THEN z[i + 1] ELSE z[i - 1]
             xi == XAdd(z[i], XMul(relaxation, dx[i - 1]))
         IN  [z EXCEPT ![i] = XMax(XMin(xi, xmax), xmin)]

\* An update of the inner nodes without the clamp, in place of Updated.
UpdatedUnclamped(p, x, ev) ==
    LET r == Residuals(x, ev)
        dx == solve_tma(r.ds_dxl, r.ds_dxc, r.ds_dxr, r.minus_s)
    IN  [i \in 0..SIZE |->
            IF i \in 1..(SIZE - 1) THEN XAdd(x[i], XMul(p.relaxation, dx[i - 1]))
            ELSE x[i]]

\* The second half of an iteration: the Newton update of the inner nodes.
Updated(p, x, ev) ==
    LET r == Residuals(x, ev)
        dx == solve_tma(r.ds_dxl, r.ds_dxc, r.ds_dxr, r.minus_s)
    IN  Clamped(x, dx, p.relaxation, SIZE - 1)

\* The state of a call of newton_tabulation with the arguments p, before
\* the first iteration: no update made, no convergence test made.  prev is
\* the outcome of the call whose table gave x_init, if there is one.
Begin(p) ==
    [pc |-> "loop", p |-> p, x |-> p.x_init, updates |-> 0, tests |-> 0,
     table |-> <<>>, prev |-> <<>>]

\* An exit test that ignores a mean area that is not a number, in place of
\* Exhausted.
ExhaustedNumbersOnly(nw, ev) == nw.updates = nw.p.max_iter

\* if loop_iter.next().is_none() || mean_area.is_nan()
Exhausted(nw, ev) == nw.updates = nw.p.max_iter \/ ev.mean_area = NAN

\* The iteration finds the areas converged: the table is returned.
NewtonReturn ==
    /\ newton.pc = "loop"
    /\ LET ev == Evaluate(newton.p, newton.x)
       IN  /\ Converged(newton.p, ev)
           /\ newton' = [newton EXCEPT !.pc = "ok", !.tests = @ + 1,
                                       !.table = Normalized(newton.x, ev)]
    /\ UNCHANGED <<sampler, loc, rng, out, limit, build>>

\* The iteration finds the areas not converged and no iteration is left,
\* or the mean area is NaN: ConvergenceFailure is returned.
NewtonFail ==
    /\ newton.pc = "loop"
    /\ LET ev == Evaluate(newton.p, newton.x)
       IN  /\ ~Converged(newton.p, ev)
           /\ Exhausted(newton, ev)
           /\ newton' = [newton EXCEPT !.pc = "err", !.tests = @ + 1]
    /\ UNCHANGED <<sampler, loc, rng, out, limit, build>>

\* The iteration finds the areas not converged and updates the inner nodes.
NewtonStep ==
    /\ newton.pc = "loop"
    /\ LET ev == Evaluate(newton.p, newton.x)
       IN  /\ ~Converged(newton.p, ev)
           /\ ~Exhausted(newton, ev)
           /\ newton' = [newton EXCEPT !.x = Updated(newton.p, newton.x, ev),
                                       !.updates = @ + 1, !.tests = @ + 1]
    /\ UNCHANGED <<sampler, loc, rng, out, limit, build>>

\* The caller of a call that returned a table calls newton_tabulation again
\* on the nodes of that table, with the same function, extrema and
\* tolerance, and with a max_iter and a relaxation of its choice.
NewtonAgain ==
    /\ newton.pc = "ok" /\ newton.prev = <<>>
    /\ \E n \in 0..newton.p.max_iter, rel \in {ONE \div 2, ONE} :
           newton' = [Begin([newton.p EXCEPT !.x_init = newton.table.x,
                                             !.relaxation = rel,
                                             !.max_iter = n])
                          EXCEPT !.prev = [table |-> newton.table,
                                           updates |-> newton.updates]]
    /\ UNCHANGED <<sampler, loc, rng, out, limit, build>>

NewtonNext == NewtonReturn \/ NewtonFail \/ NewtonStep \/ NewtonAgain

\* The largest max_iter of the calls of the model.
MaxIter == 3

\* A partition from a list of nodes given in quarters.
Nodes(xs) == [k \in 0..SIZE |-> xs[k + 1] * (ONE \div 4)]

\* The same partition from its last node to its first.
Reversed(x) == [k \in 0..SIZE |-> x[SIZE - k]]

\* Functions of the model with initial partitions and extrema for them:
\* "hyp" about 0 on [0, 8] (the first partition has rectangles of exactly
\* equal areas), "dom" of domain x <= 6 on [0, 6] and on [0, 8], whose
\* last node is outside the domain, "lin" about 0 on [0, 4], and "lin" about 2 on [0, 4], with
\* its maximum at 2 listed, from either end.
Problems ==
    LET hyp == [kind |-> "hyp", mu |-> 0]
        lin == [kind |-> "lin", mu |-> 0]
        tent == [kind |-> "lin", mu |-> 2 * ONE]
        dom == [kind |-> "dom", mu |-> 6 * ONE]
    IN  {[func |-> hyp, x_init |-> Nodes(xs), x_extrema |-> <<>>] :
            xs \in {<<0, 4, 8, 16, 32>>, <<0, 8, 16, 24, 32>>, <<0, 2, 8, 12, 32>>}}
        \cup {[func |-> dom, x_init |-> Nodes(xs), x_extrema |-> <<>>] :
            xs \in {<<0, 4, 8, 16, 24>>, <<0, 8, 16, 24, 32>>}}
        \cup {[func |-> lin, x_init |-> Nodes(xs), x_extrema |-> <<>>] :
            xs \in {<<0, 4, 8, 12, 16>>, <<0, 2, 5, 9, 16>>}}
        \cup {[func |-> tent, x_init |-> Nodes(xs), x_extrema |-> <<2 * ONE>>] :
            xs \in {<<0, 4, 6, 12, 16>>, <<0, 3, 7, 10, 16>>, <<0, 4, 11, 12, 16>>}}
        \cup {[func |-> tent, x_init |-> Reversed(Nodes(xs)), x_extrema |-> <<2 * ONE>>] :
            xs \in {<<0, 4, 6, 12, 16>>, <<0, 3, 7, 10, 16>>, <<0, 4, 11, 12, 16>>}}
        \cup {[func |-> hyp, x_init |-> Nodes(<<0, 5, 12, 13, 16>>), x_extrema |-> <<>>]}
        \cup {[func |-> tent, x_init |-> Nodes(<<0, 3, 7, 14, 16>>),
               x_extrema |-> <<ONE, 2 * ONE, 3 * ONE>>],
              [func |-> tent, x_init |-> Reversed(Nodes(<<0, 3, 7, 14, 16>>)),
               x_extrema |-> <<3 * ONE, 2 * ONE, ONE>>]}

\* The tolerances and relaxation factors of the calls of the model.
Tolerances == {0, ONE \div 8, ONE \div 2, ONE}
Relaxations == {ONE \div 2, ONE}

\* The arguments of the calls of newton_tabulation.
NewtonInputs ==
    {[func |-> q.func, x_init |-> q.x_init, x_extrema |-> q.x_extrema,
      tolerance |-> tol, relaxation |-> rel, max_iter |-> n] :
        q \in Problems, tol \in Tolerances, rel \in Relaxations, n \in 0..MaxIter}

NewtonInit ==
    /\ newton \in {Begin(p) : p \in NewtonInputs}
    /\ sampler = [variant |-> "none"]
    /\ loc = <<>>
    /\ rng = <<>>
    /\ out = <<>>
    /\ limit = 0
    /\ build = Idle

NewtonSpec == NewtonInit /\ [][NewtonNext]_vars

-----------------------------------------------------------------------------
(* The constructors of the distributions. *)

\* <= of PartialOrd: false when an operand is NaN.
XLe(a, b) == a # NAN /\ b # NAN /\ a <= b

\* The sizes of the partition types P16 .. P4096.
PartitionSizes == {Pow2(b) : b \in 4..12}

\* The partition type of a distribution for the floats of a width: the
\* associated type P of NormalFloat, CauchyFloat, GumbelFloat, GammaFloat
\* and ChiSquaredFloat.
PartitionOf(ctor, width) ==
    IF ctor \in {"Gamma", "ChiSquared"} THEN 512 ELSE 256

\* The sampler a distribution wraps.
VariantOf(ctor) ==
    CASE ctor \in {"Normal", "Cauchy"} -> "DistSymmetricTailed"
      [] ctor = "CentralNormal" -> "DistCentralTailed"
      [] OTHER -> "DistAnyTailed"

\* ValidPartitionSize<T> and ValidSymmetricPartitionSize<T>: the partition
\* sizes marked valid for the floats of a width.
ValidPartitionSize(width) ==
    {n \in PartitionSizes : n <= (IF width = 32 THEN 256 ELSE 4096)}
ValidSymmetricPartitionSize(width) ==
    {n \in PartitionSizes : n <= (IF width = 32 THEN 128 ELSE 2048)}

\* The bound on P of the impl blocks of the samplers, P: Partition<T>: the
\* sizes a sampler can be built with.
AcceptedPartitionSize(variant, width) == PartitionSizes

\* A validation that lets a zero parameter through, in place of Rejection.
RejectionOfNegatives(c) ==
    CASE c.ctor \in {"Normal", "CentralNormal"} ->
            IF XLt(c.b, 0) THEN "BadStdDev" ELSE "none"
      [] c.ctor \in {"Cauchy", "Gumbel"} ->
            IF XLt(c.b, 0) THEN "BadScale" ELSE "none"
      [] c.ctor = "Gamma" ->
            IF XLt(c.a, ONE) THEN "BadShape"
            ELSE IF XLt(c.b, 0) THEN "BadScale" ELSE "none"
      [] OTHER -> IF XLt(c.a, 2 * ONE) THEN "BadDof" ELSE "none"

\* The checks at the entry of the constructor called by c: the error
\* returned, or "none".  c.a is the mean, location, shape or k, and c.b the
\* standard deviation or scale.
Rejection(c) ==
    CASE c.ctor \in {"Normal", "CentralNormal"} ->
            IF XLe(c.b, 0) THEN "BadStdDev" ELSE "none"
      [] c.ctor \in {"Cauchy", "Gumbel"} ->
            IF XLe(c.b, 0) THEN "BadScale" ELSE "none"
      [] c.ctor = "Gamma" ->
            IF XLt(c.a, ONE) THEN "BadShape"
            ELSE IF XLe(c.b, 0) THEN "BadScale" ELSE "none"
      [] OTHER -> IF XLt(c.a, 2 * ONE) THEN "BadDof" ELSE "none"

\* The state of a call c of a constructor at its entry: ran lists the
\* routines run so far, result is the outcome once the call is done.
Enter(c) ==
    [pc |-> "entry", call |-> c, ran |-> <<>>, result |-> "none",
     inner |-> [variant |-> "none"]]

\* The parameter checks: the constructor returns an error or goes on.
BuildValidate ==
    /\ build.pc = "entry"
    /\ build' = IF Rejection(build.call) = "none"
                THEN [build EXCEPT !.pc = "prepartition"]
                ELSE [build EXCEPT !.pc = "done", !.result = Rejection(build.call)]
    /\ UNCHANGED <<sampler, loc, rng, out, limit, newton>>

\* util::midpoint_prepartition gives the initial nodes.
BuildPrepartition ==
    /\ build.pc = "prepartition"
    /\ build' = [build EXCEPT !.pc = "tabulate",
                              !.ran = Append(@, "midpoint_prepartition")]
    /\ UNCHANGED <<sampler, loc, rng, out, limit, newton>>

\* util::newton_tabulation returns a table, or fails and the constructor
\* returns TabulationFailure.  Both outcomes are kept for every call.
BuildTabulate ==
    /\ build.pc = "tabulate"
    /\ \E ok \in BOOLEAN :
           build' = [build EXCEPT !.pc = IF ok THEN "assemble" ELSE "done",
                                  !.result = IF ok THEN @ ELSE "TabulationFailure",
                                  !.ran = Append(@, "newton_tabulation")]
    /\ UNCHANGED <<sampler, loc, rng, out, limit, newton>>

\* The sampler is built from the table and the distribution is returned.
BuildAssemble ==
    /\ build.pc = "assemble"
    /\ PartitionOf(build.call.ctor, build.call.width)
           \in AcceptedPartitionSize(VariantOf(build.call.ctor), build.call.width)
    /\ build' = [build EXCEPT
                    !.pc = "done", !.result = "Ok",
                    !.inner = [variant |-> VariantOf(build.call.ctor),
                               size |-> PartitionOf(build.call.ctor, build.call.width),
                               width |-> build.call.width,
                               gamma |-> IF build.call.ctor = "Gamma"
                                         THEN "LargeShapeGamma" ELSE "none"]]
    /\ UNCHANGED <<sampler, loc, rng, out, limit, newton>>

BuildNext == BuildValidate \/ BuildPrepartition \/ BuildTabulate \/ BuildAssemble

\* The parameters of the calls: standard deviations and scales, and shapes
\* and numbers of degrees of freedom.
Scales == {-ONE, 0, ONE \div 2, ONE, NAN}
ShapeParams == {-ONE, 0, ONE \div 64, ONE \div 2, ONE, 2 * ONE, 9 * (ONE \div 2)}

\* The calls of the constructors, for f32 and f64.
Calls ==
    {[ctor |-> k, width |-> w, a |-> a, b |-> b] :
        k \in {"Normal", "Cauchy", "Gumbel"}, w \in {32, 64},
        a \in {0, ONE}, b \in Scales}
    \cup {[ctor |-> "CentralNormal", width |-> w, a |-> 0, b |-> b] :
        w \in {32, 64}, b \in Scales}
    \cup {[ctor |-> "Gamma", width |-> w, a |-> a, b |-> b] :
        w \in {32, 64}, a \in ShapeParams, b \in Scales}
    \cup {[ctor |-> "ChiSquared", width |-> w, a |-> a, b |-> ONE] :
        w \in {32, 64}, a \in ShapeParams}

BuildInit ==
    /\ build \in {Enter(c) : c \in Calls}
    /\ newton = Idle
    /\ sampler = [variant |-> "none"]
    /\ loc = <<>>
    /\ rng = <<>>
    /\ out = <<>>
    /\ limit = 0

BuildSpec == BuildInit /\ [][BuildNext]_vars

\* The tables and tail areas the samplers of SwitchSpec are built from; a
\* variant without a tail takes no tail area.
SwitchTables == {TabHyp(0), TabLin(0), TabDegenerate(0), TabTwoSided}
SwitchTailAreas(v) ==
    IF IsTailed(v) THEN {0, ONE \div 4, ONE, 4 * ONE, 32 * ONE, 64 * ONE} ELSE {0}

\* A call of Dist*::new on a table and a tail area.
SwitchInit ==
    /\ build \in UNION {{[pc |-> "new", variant |-> v, it |-> it, tail_area |-> ta] :
                              it \in SwitchTables, ta \in SwitchTailAreas(v)} :
                                  v \in Variants}
    /\ newton = Idle
    /\ sampler = [variant |-> "none"]
    /\ loc = <<>>
    /\ rng = <<>>
    /\ out = <<>>
    /\ limit = 0

\* Dist*::new returns the sampler.
SwitchNew ==
    /\ build.pc = "new"
    /\ sampler' = New(build.variant, 0, [kind |-> "lin", mu |-> 0], build.it,
                      EnvOf(build.it), build.tail_area, FALSE)
    /\ build' = [build EXCEPT !.pc = "built"]
    /\ UNCHANGED <<loc, rng, out, limit, newton>>

SwitchSpec == SwitchInit /\ [][SwitchNew]_vars

-----------------------------------------------------------------------------
(* A Central sampler and the Symmetric sampler with x0 = 0, side by side. *)

\* The Symmetric variant a Central variant specialises.
SymmetricOf(v) == IF v = "DistCentral" THEN "DistSymmetric" ELSE "DistSymmetricTailed"

\* Run 1 samples a Central sampler, run 2 the Symmetric sampler built with
\* x0 = 0 from the same function, table, envelope and tail area.
TwinInit ==
    /\ \E v \in {"DistCentral", "DistCentralTailed"}, sh \in Shapes(0) :
          \E ta \in TailAreas(v, sh[1]), fma \in Builds(sh[1]) :
              /\ sampler = New(v, 0, sh[1], sh[2], EnvOf(sh[2]), ta, fma)
              /\ build = [pc |-> "twin",
                          sm |-> New(SymmetricOf(v), 0, sh[1], sh[2], EnvOf(sh[2]), ta, fma)]
    /\ loc = [t \in {1, 2} |-> Fresh]
    /\ rng = [t \in {1, 2} |-> Source(<<>>)]
    /\ out = [t \in {1, 2} |-> <<>>]
    /\ limit = MaxWords
    /\ newton = Idle

\* Both runs draw the same word.
TwinDraw(w) ==
    /\ build.pc = "twin"
    /\ \A t \in {1, 2} : loc[t].pc \in {"loop", "tail", "tail_accept", "wedge"} /\ Metered(t)
    /\ w \in NextWords(1, IF loc[1].pc = "loop" THEN "r" ELSE "gen")
    /\ loc' = [t \in {1, 2} |->
                  StepOn(IF t = 1 THEN sampler ELSE build.sm, loc[t], w)]
    /\ UNCHANGED <<sampler, newton, build, rng, out, limit>>

\* Both runs have returned: both callers call sample again.
TwinCall ==
    /\ build.pc = "twin"
    /\ \A t \in {1, 2} : loc[t].pc = "done"
    /\ loc' = [t \in {1, 2} |-> Fresh]
    /\ UNCHANGED <<sampler, newton, build, rng, out, limit>>

TwinNext == (\E w \in Words : TwinDraw(w)) \/ TwinCall

TwinSpec == TwinInit /\ [][TwinNext]_vars

-----------------------------------------------------------------------------
(* midpoint_prepartition. *)

\* The values of f at the midpoints of the m sub-intervals of width dx.
MidValues(f, x0, dx, m) ==
    [i \in 0..(m - 1) |->
        FnEval(f, FAdd(x0, FMul(FAdd(cast_usize(i), ONE_HALF), dx)))]

\* y.iter().fold(T::ZERO, |s, &y_| y_ + s) over y[0 .. k-1].
RECURSIVE FoldSum(_, _)
FoldSum(y, k) == IF k = 0 THEN 0 ELSE FAdd(y[k - 1], FoldSum(y, k - 1))

\* The while loop: rectangles are added until the cumulated area a_rect is
\* not below a.  Reading y past its end panics.
RECURSIVE Integrated(_, _, _, _, _)
Integrated(y, m, dx, st, a) ==
    IF st.panic \/ ~(st.a_rect < a) THEN st
    ELSE IF st.rect + 1 >= m THEN [st EXCEPT !.panic = TRUE]
    ELSE Integrated(y, m, dx,
                    [st EXCEPT !.rect = @ + 1,
                               !.a_rect = FAdd(@, y[st.rect + 1]),
                               !.x_rect = FAdd(@, dx)], a)

\* The for loop over the nodes 1 .. i: the position in the quadrature and
\* the nodes written so far.
RECURSIVE Walked(_, _, _, _, _, _, _)
Walked(n, y, m, x0, dx, ds, i) ==
    IF i = 0
    THEN [rect |-> 0, x_rect |-> FAdd(x0, dx), a_rect |-> y[0], panic |-> FALSE,
          x |-> [k \in 0..n |-> 0]]
    ELSE LET w == Walked(n, y, m, x0, dx, ds, i - 1)
             a == FMul(ds, cast_usize(i))
             st == Integrated(y, m, dx, w, a)
         IN  IF st.panic THEN st
             ELSE [st EXCEPT !.x[i] = FSub(st.x_rect,
                                           FMul(dx, FDiv(FSub(st.a_rect, a), y[st.rect])))]

\* The number of sub-intervals of the quadrature.
GridCount(n, m) == IF m # 0 THEN m ELSE n

\* midpoint_prepartition::<P, T, F>(f, x0, x1, m) for a partition P of n
\* cells: the nodes, or a panic.
midpoint_prepartition(n, f, x0, x1, m) ==
    LET mm == GridCount(n, m)
        dx == FDiv(FSub(x1, x0), cast_usize(mm))
        y == MidValues(f, x0, dx, mm)
        ds == FDiv(FoldSum(y, mm), cast_usize(n))
        w == Walked(n, y, mm, x0, dx, ds, n - 1)
    IN  IF w.panic THEN [panic |-> TRUE, rect |-> w.rect + 1]
        ELSE [panic |-> FALSE, rect |-> w.rect,
              x |-> [k \in 0..n |-> IF k = 0 THEN x0
                                     ELSE IF k = n THEN x1 ELSE w.x[k]]]

\* The largest grid count of the calls of the model.
MaxGrid == 8

\* The partition sizes of the calls of the model.
GridPartitions == {SIZE, 2 * SIZE}

\* The calls of the model: x0 < x1 and a function that is strictly positive
\* on [x0, x1]; the "flat" ones are a few units of the smallest positive
\* float high.
Prepartitions ==
    {c \in [n : GridPartitions,
            f : {[kind |-> "hyp", mu |-> 0], [kind |-> "hyp", mu |-> 4 * ONE],
                 [kind |-> "lin", mu |-> 2 * ONE],
                 [kind |-> "flat", mu |-> 5], [kind |-> "flat", mu |-> ONE]},
            x0 : {0, ONE, 5 * ONE},
            x1 : {2 * ONE, 3 * ONE, 4 * ONE, 7 * ONE},
            m : 0..MaxGrid] :
        /\ c.x0 < c.x1
        /\ c.f.kind = "lin" => c.x1 <= 4 * ONE}

PrepartitionInit ==
    /\ build \in {[pc |-> "midpoint", call |-> c] : c \in Prepartitions}
    /\ newton = Idle
    /\ sampler = [variant |-> "none"]
    /\ loc = <<>>
    /\ rng = <<>>
    /\ out = <<>>
    /\ limit = 0

\* midpoint_prepartition returns its nodes.
PrepartitionReturn ==
    /\ build.pc = "midpoint"
    /\ LET r == midpoint_prepartition(build.call.n, build.call.f, build.call.x0,
                                       build.call.x1, build.call.m)
       IN  build' = IF r.panic
                    THEN [pc |-> "panic", call |-> build.call, rect |-> r.rect]
                    ELSE [pc |-> "nodes", call |-> build.call, rect |-> r.rect,
                          x |-> r.x]
    /\ UNCHANGED <<sampler, loc, rng, out, limit, newton>>

PrepartitionSpec == PrepartitionInit /\ [][PrepartitionReturn]_vars

-----------------------------------------------------------------------------
(* The Cauchy probability density function. *)

\* UnscaledPdf::new(location, scale).
UnscaledPdf(location, scale) ==
    [location |-> location, square_inv_scale |-> FDiv(ONE, FMul(scale, scale))]

\* 1 + square_inv_scale * dx * dx, as both eval and test compute it.
CauchyDenominator(pdf, x) ==
    LET dx == FSub(x, pdf.location)
    IN  FAdd(ONE, FMul(FMul(pdf.square_inv_scale, dx), dx))

\* UnscaledPdf::eval and the operations it performs.
CauchyEval(pdf, x) == FDiv(ONE, CauchyDenominator(pdf, x))
CauchyEvalOps == <<"sub", "mul", "mul", "add", "div">>

\* The default UnivariateFn::test on UnscaledPdf::eval: a * self.eval(x) > b.
DefaultTest(pdf, x, a, b) == FMul(a, CauchyEval(pdf, x)) > b

\* A test that compares with the numerator of the density only, in place of
\* CauchyTest.
CauchyTestNoOne(pdf, x, a, b) ==
    LET dx == FSub(x, pdf.location)
    IN  a > FMul(b, FMul(FMul(pdf.square_inv_scale, dx), dx))

\* UnscaledPdf::test, the override, and the operations it performs.
CauchyTest(pdf, x, a, b) == a > FMul(b, CauchyDenominator(pdf, x))
CauchyTestOps == <<"sub", "mul", "mul", "add", "mul", "gt">>

\* The calls of the model: locations, scales, abscissae within two units of
\* the location, strictly positive a and b.
CauchyCalls ==
    [location : {0, ONE}, scale : {ONE_HALF, ONE, 2 * ONE},
     dx : {k * (ONE \div 4) : k \in -8..8},
     a : {k * (ONE \div 8) : k \in 1..16},
     b : {k * (ONE \div 8) : k \in 1..16}]

CauchyInit ==
    /\ build \in {[pc |-> "test", call |-> c] : c \in CauchyCalls}
    /\ newton = Idle
    /\ sampler = [variant |-> "none"]
    /\ loc = <<>>
    /\ rng = <<>>
    /\ out = <<>>
    /\ limit = 0

\* One wedge test, made both ways on the same arguments.
CauchyTestCall ==
    /\ build.pc = "test"
    /\ LET c == build.call
           pdf == UnscaledPdf(c.location, c.scale)
           x == c.location + c.dx
       IN  build' = [pc |-> "tested", call |-> c,
                     denominator |-> CauchyDenominator(pdf, x),
                     override |-> CauchyTest(pdf, x, c.a, c.b),
                     default |-> DefaultTest(pdf, x, c.a, c.b),
                     ops |-> CauchyTestOps]
    /\ UNCHANGED <<sampler, loc, rng, out, limit, newton>>

CauchySpec == CauchyInit /\ [][CauchyTestCall]_vars

-----------------------------------------------------------------------------
(* process_table on its own. *)

\* Tables of four cells of width 1 and supremum 8 whose infima are given in
\* sixteenths of the supremum.
RatioTables ==
    {Tab(x0, <<0, 2, 4, 6, 8>>, ys, <<16, 16, 16, 16>>) :
        x0 \in {0, 4 * ONE},
        ys \in {<<16, 12, 8, 4>>, <<15, 3, 1, 0>>, <<2, 14, 6, 10>>, <<0, 0, 16, 7>>}}

\* The tail switches of the model: every value compute_tail_switch can
\* return but 0.
TableSwitches == 1..(MaxSwitch("DistAny") + 1)

TableInit ==
    /\ build \in {[pc |-> "table", x0 |-> x0, it |-> it, tail_switch |-> ts] :
                     x0 \in {0, 4 * ONE}, it \in RatioTables, ts \in TableSwitches}
    /\ newton = Idle
    /\ sampler = [variant |-> "none"]
    /\ loc = <<>>
    /\ rng = <<>>
    /\ out = <<>>
    /\ limit = 0

\* The value of w.log2() in cell i when it is rounded upwards (up) or
\* downwards (none is used when w = 0).
LogValue(it, tail_switch, i, up) ==
    LET w == Weight(it, tail_switch, i)
    IN  IF w <= 0 THEN 0 ELSE IF up THEN Log2Upper(w) ELSE Log2Lower(w)

\* process_table with the logarithm lg[i] in cell i.
process_table_given(x0, it, tail_switch, lg) ==
    [table |-> [i \in 0..SIZE |->
                    IF i < SIZE
                    THEN DatumGiven(x0, it, tail_switch, i,
                                    Weight(it, tail_switch, i) > 0 /\ BitLossWithin(lg[i]))
                    ELSE [alpha |-> 0, beta |-> FSub(it.x[SIZE], x0), wedge_switch |-> 0]],
     scaled_xysup |-> FDiv(FMul(FSub(it.x[1], it.x[0]), it.ysup[0]), cast_uint(tail_switch))]

\* process_table(x0, init_table, tail_switch) returns the compiled table;
\* each cell's w.log2() has one of the values log2 may give.
ProcessTable ==
    /\ build.pc = "table"
    /\ \E up \in [0..(SIZE - 1) -> BOOLEAN] :
          build' = [pc |-> "compiled", x0 |-> build.x0, it |-> build.it,
                    tail_switch |-> build.tail_switch,
                    data |-> process_table_given(
                                 build.x0, build.it, build.tail_switch,
                                 [i \in 0..(SIZE - 1) |->
                                     LogValue(build.it, build.tail_switch, i, up[i])])]
    /\ UNCHANGED <<sampler, loc, rng, out, limit, newton>>

TableSpec == TableInit /\ [][ProcessTable]_vars

-----------------------------------------------------------------------------
(* The wedge test on its own. *)

\* The samplers of the model, each with the table it was built from.
TabledSamplers ==
    UNION {UNION {UNION {
        {[sm |-> New(v, x0, sh[1], sh[2], EnvOf(sh[2]), ta, FALSE), it |-> sh[2]] :
            ta \in TailAreas(v, sh[1])} : sh \in Shapes(x0)} : x0 \in Origins(v)} :
                v \in Variants}

\* A call of sample is about to make the wedge test: its word has failed the
\* fast-path test in cell i and, in the tailed variants, its fraction u is
\* not above tail_switch.  build keeps the table and the locals of the call.
WedgeInit ==
    /\ limit = 0
    /\ rng = [t \in {1} |-> Source(<<>>)]
    /\ out = [t \in {1} |-> <<>>]
    /\ newton = Idle
    /\ \E c \in TabledSamplers, r \in Words :
           LET l == LoopStep(c.sm, Fresh, r)
           IN  /\ l.pc = "wedge"
               /\ sampler = c.sm
               /\ loc = [t \in {1} |-> l]
               /\ build = [pc |-> "wedge", it |-> c.it, l |-> l]

WedgeNext == \E w \in Words : Wedge(1, w)

WedgeSpec == WedgeInit /\ [][WedgeNext]_vars

-----------------------------------------------------------------------------
(* The tail of the normal distribution. *)

\* NormalFloat::TAIL_POS
TAIL_POS == Fl(13 * ONE, 4)

\* The float nearest to ln(2).
LN_2 == Fl(11 * ONE, 16)

\* self.ln() for a float v > 0.
Ln(v) == FMul(Log2Nearest(v), LN_2)

\* Tail::new_with_area: the tail beyond cut_in = mean + TAIL_POS * std_dev.
NormalTail(mean, std_dev) ==
    LET cut_in == FAdd(mean, FMul(TAIL_POS, std_dev))
    IN  [cut_in |-> cut_in,
         a_x |-> FDiv(FMul(std_dev, std_dev), FSub(cut_in, mean)),
         a_y |-> FMul(FMul(-(2 * ONE), std_dev), std_dev)]

\* (T::ONE - T::gen(rng)).ln() * a
LnDraw(w, a) == FMul(Ln(FSub(ONE, FloatGen(w))), a)

\* if y >= x * x
TailAccepts(x, y) == y >= FMul(x, x)

\* The rounds of two draws one call of try_sample is followed through.
MaxRounds == 3

\* A try_sample that makes one round of two draws and returns None when
\* its test fails, in place of AfterTailTest.
AfterTailTestOnce(b, y) ==
    IF TailAccepts(b.x, y)
    THEN [b EXCEPT !.pc = "some", !.y = y, !.ret = FSub(b.tail.cut_in, b.x)]
    ELSE [b EXCEPT !.pc = "none", !.y = y]

\* The end of a round of the loop of try_sample: Some(cut_in - x) is
\* returned if the test passes, and the loop makes another round if not.
AfterTailTest(b, y) ==
    IF TailAccepts(b.x, y)
    THEN [b EXCEPT !.pc = "some", !.y = y, !.ret = FSub(b.tail.cut_in, b.x)]
    ELSE [b EXCEPT !.pc = "x", !.y = y, !.rounds = @ + 1]

\* A call of try_sample on the tail of a normal distribution.
NormalTailCall(tail) ==
    [pc |-> "x", tail |-> tail, x |-> 0, y |-> 0, ret |-> 0, rounds |-> 0]

NormalTailInit ==
    /\ build \in {NormalTailCall(NormalTail(mean, std_dev)) :
                     mean \in {0, ONE}, std_dev \in {ONE_HALF, ONE, 2 * ONE}}
    /\ newton = Idle
    /\ sampler = [variant |-> "none"]
    /\ loc = <<>>
    /\ rng = <<>>
    /\ out = <<>>
    /\ limit = 0

\* let x = (T::ONE - T::gen(rng)).ln() * self.a_x;
NormalTailDrawX ==
    /\ build.pc = "x" /\ build.rounds < MaxRounds
    /\ \E w \in GenWords : build' = [build EXCEPT !.pc = "y", !.x = LnDraw(w, build.tail.a_x)]
    /\ UNCHANGED <<sampler, loc, rng, out, limit, newton>>

\* let y = (T::ONE - T::gen(rng)).ln() * self.a_y; and the test of the round.
NormalTailDrawY ==
    /\ build.pc = "y"
    /\ \E w \in GenWords : build' = AfterTailTest(build, LnDraw(w, build.tail.a_y))
    /\ UNCHANGED <<sampler, loc, rng, out, limit, newton>>

\* The sampler that was returned a value calls try_sample again later.
NormalTailAgain ==
    /\ build.pc \in {"some", "none"}
    /\ build' = NormalTailCall(build.tail)
    /\ UNCHANGED <<sampler, loc, rng, out, limit, newton>>

NormalTailNext == NormalTailDrawX \/ NormalTailDrawY \/ NormalTailAgain

NormalTailSpec == NormalTailInit /\ [][NormalTailNext]_vars


-----------------------------------------------------------------------------
(* Properties of the sampling loop. *)

\* The datum of the cell a call is working on.
Cell(t) == sampler.data.table[loc[t].i]

\* A cell compiled by the degraded branch of process_table.
Degenerate(d) == d.wedge_switch = 0 /\ d.alpha = 0

\* C1: whatever word is drawn, the table index extracted from it lies in
\* 0..N-1: no read of the table panics, the cell used for the fast-path and
\* wedge tests is never the sentinel cell N, and the entry i + 1 read for its
\* beta during wedge sampling is one of the N + 1 entries of the table.
IndexInRange ==
    \A t \in Threads :
        /\ loc[t].pc # "panic"
        /\ loc[t].i \in 0..(SIZE - 1)
        /\ (loc[t].i + 1) \in DOMAIN sampler.data.table

\* A wedge test is about to be made in the last cell, reading the sentinel's beta.
WedgeInLastCell == \E t \in Threads : loc[t].pc = "wedge" /\ loc[t].i = SIZE - 1

\* C2: a call never returns from the rectangular fast path when the cell
\* selected by the word is a degenerate one.
DegenerateNeverFast ==
    \A t \in Threads :
        (loc[t].pc = "done" /\ loc[t].path = "fast") => ~Degenerate(Cell(t))

\* C3: in the tailed variants, an iteration whose word fails the fast-path
\* test calls the envelope exactly once and makes no wedge test when
\* u > tail_switch, and makes the wedge test without calling the envelope
\* when u <= tail_switch; a value returned by the envelope ends sample after
\* sign fold and translation, no value starts a new iteration.
TailBranchState(t) ==
    LET l == loc[t]
        folded == IF sampler.variant = "DistAnyTailed" THEN l.cand
                  ELSE IF sampler.variant = "DistCentralTailed" THEN bitxor(l.cand, l.s)
                  ELSE FAdd(sampler.x0, bitxor(l.cand, l.s))
    IN  /\ l.pc \in {"tail", "tail_accept"} =>
              l.u > sampler.tail_switch /\ l.u > Cell(t).wedge_switch
              /\ l.tails = 1 /\ l.wedges = 0
        /\ l.pc = "wedge" =>
              l.u <= sampler.tail_switch /\ l.u > Cell(t).wedge_switch
              /\ l.tails = 0 /\ l.wedges = 0
        /\ l.path = "tail" => l.pc \in {"done", "loop"} /\ l.tails = 1 /\ l.wedges = 0
        /\ l.path = "wedge" => l.pc \in {"done", "loop"} /\ l.tails = 0 /\ l.wedges = 1
        /\ (l.pc = "done" /\ l.path = "tail") => l.ret = folded

TailBranchStep(t) ==
    /\ (loc[t].pc = "tail" /\ loc'[t] # loc[t]) => loc'[t].pc = "tail_accept"
    /\ (loc[t].pc = "tail_accept" /\ loc'[t] # loc[t]) =>
           \/ loc'[t].pc = "done" /\ loc'[t].path = "tail"
           \/ loc'[t].pc = "loop" /\ loc'[t].path = "tail"
    /\ (loc[t].pc = "loop" /\ loc[t].path = "tail" /\ loc'[t] # loc[t]) =>
           loc'[t].nwords = loc[t].nwords + 1 /\ loc'[t].niter = loc[t].niter + 1

TailBranch ==
    /\ [](IsTailed(sampler.variant) => \A t \in Threads : TailBranchState(t))
    /\ [][IsTailed(sampler.variant) => \A t \in Threads : TailBranchStep(t)]_vars

\* The envelope has returned a value that the sign fold negates.
TailValueFolded ==
    \E t \in Threads :
        /\ sampler.variant = "DistSymmetricTailed" /\ sampler.x0 # 0
        /\ loc[t].pc = "done" /\ loc[t].path = "tail" /\ loc[t].s # 0

\* The envelope has returned no value and a new iteration is about to start.
TailRejected == \E t \in Threads : loc[t].pc = "loop" /\ loc[t].path = "tail"

\* Every call returns a value: none panics and none loops for ever.  Under
\* FairSpec this is termination for a stream in which every word value
\* keeps recurring.
Terminates ==
    /\ [](loc[1].pc # "panic")
    /\ (loc[1].pc # "done") ~> (loc[1].pc = "done")

\* Every word value keeps recurring among the words drawn as r at the start
\* of an iteration, if iterations keep starting.
LoopFair ==
    \/ <>[](loc[1].pc # "loop")
    \/ \A w \in Words : []<>(rng[1].site = "r" /\ rng[1].last = w)

\* C4: sample never panics, and when every word value keeps recurring among
\* the words drawn as r at the start of an iteration, every call eventually
\* returns a value, whatever the table (all cells degenerate included) and
\* whatever words the wedge tests and the envelope consume.
TerminatesLoopFair == LoopFair => Terminates

\* A wedge test has failed in a table whose cells are all degenerate, and a
\* new iteration is about to start.
DegenerateWedgeFailed ==
    /\ limit = 0
    /\ \A k \in 0..(SIZE - 1) : Degenerate(sampler.data.table[k])
    /\ loc[1].pc = "loop" /\ loc[1].path = "wedge"

\* The values thread t has been returned so far, the one it is about to
\* take included.
Returned(t) == IF loc[t].pc = "done" THEN Append(out[t], loc[t].ret) ELSE out[t]

\* C5: whatever the interleaving of the threads' steps, the values returned
\* to a thread are the values sample returns, call after call, to a caller
\* that runs alone on the words the thread's own source has given so far,
\* and no step changes the sampler (its table, tail_switch, x0 and
\* scaled_xysup).
ThreadsIndependent ==
    /\ [](\A t \in Threads :
            Returned(t) = SampleAlone(sampler, Fresh, SubSeq(rng[t].seq, 1, rng[t].pos), 1))
    /\ [][sampler' = sampler]_vars

\* Both threads have been returned a value, the second one after a failed
\* test, while the first is in the middle of a later call.
ThreadsInterleaved ==
    /\ DOMAIN loc = {1, 2}
    /\ rng[1].seq # rng[2].seq
    /\ Len(out[1]) >= 1 /\ loc[1].pc \in {"wedge", "tail", "tail_accept"}
    /\ loc[2].pc = "done" /\ loc[2].path \in {"wedge", "tail"}
    /\ rng[2].pos < rng[1].pos

\* The two runs have drawn as many words and stand at the same place with
\* the same u, i and candidate and opposite signs s.
PairLockstep ==
    /\ loc[1].pc = loc[2].pc /\ loc[1].nwords = loc[2].nwords
    /\ loc[1].path = loc[2].path
    /\ loc[1].u = loc[2].u /\ loc[1].i = loc[2].i /\ loc[1].cand = loc[2].cand
    /\ loc[1].pc \in {"wedge", "tail", "tail_accept", "done"} =>
           loc[1].s = BitXor(loc[2].s, SMask)

\* The returned values are exact mirror images about x0.
Mirrored == loc[1].ret - sampler.x0 = -(loc[2].ret - sampler.x0)

\* The two runs consume the same number of words and return values that are
\* exact mirror images about x0, in every symmetric variant.
MirrorExact ==
    IsSymmetric(sampler.variant) =>
        /\ PairLockstep
        /\ loc[1].pc = "done" => Mirrored

\* C6: in the symmetric variants the two runs consume the same number of
\* words and return x0 + c and x0 + (-c) for one and the same candidate c,
\* each sum rounded on its own: the values are exact mirror images about x0
\* in the Central variants and whenever x0 = 0, and a value is not below x0
\* when the top bit of the accepted word is clear, not above it when set.
MirrorUpToRounding ==
    IsSymmetric(sampler.variant) =>
        /\ PairLockstep
        /\ loc[1].pc = "done" =>
              /\ \A t \in {1, 2} :
                    /\ loc[t].ret = FAdd(sampler.x0, bitxor(loc[t].cand, loc[t].s))
                    /\ loc[t].s = 0 => loc[t].ret >= sampler.x0
                    /\ loc[t].s # 0 => loc[t].ret <= sampler.x0
              /\ bitxor(loc[1].cand, loc[1].s) = -bitxor(loc[2].cand, loc[2].s)
              /\ (sampler.x0 = 0 \/ sampler.variant \in {"DistCentral", "DistCentralTailed"})
                    => Mirrored

\* The two runs have returned from a wedge test, about an origin other than
\* 0, values on either side of it.
PairReturned ==
    /\ DOMAIN loc = {1, 2} /\ limit # 0 /\ rng[1].seq = <<>>
    /\ sampler.x0 # 0
    /\ loc[1].pc = "done" /\ loc[2].pc = "done" /\ loc[1].path = "wedge"
    /\ loc[1].ret > sampler.x0 /\ loc[2].ret < sampler.x0

\* Bits of the fraction u in the words of variant v.
FractionBits(v) == U_BITS - P_BITS - SignBits(v)

\* The triples (s, i, u) read from the words, and the triples there are.
Triples(v) == {<<ExtractS(v, r), ExtractI(v, r), ExtractU(v, r)>> : r \in Words}
AllTriples(v) ==
    (IF IsSymmetric(v) THEN {0, SMask} ELSE {0})
        \X (0..(SIZE - 1)) \X (0..(Pow2(FractionBits(v)) - 1))

\* C7: the sign s, the index i and the fraction u are the top bit, the next
\* P::BITS bits and the remaining low bits of the word r drawn at the start
\* of an iteration (no sign bit and one more fraction bit in the
\* non-symmetric variants): the ranges are disjoint and cover r, so r is
\* s + i * 2^(fraction bits) + u, and r -> (s, i, u) is a bijection onto
\* the product of the three ranges.  The sign read after the arithmetic
\* shift is the top bit of r.
BitsPartitionWord ==
    \A t \in Threads :
        LET v == sampler.variant
            r == rng[t].last
            l == loc[t]
        IN  /\ (rng[t].site = "r" /\ l.pc \in {"done", "tail", "wedge"}) =>
                  /\ l.u = r % Pow2(FractionBits(v))
                  /\ l.i = (r \div Pow2(FractionBits(v))) % SIZE
                  /\ l.s = (IF IsSymmetric(v) THEN BitAnd(r, SMask) ELSE 0)
                  /\ r = l.s + l.i * Pow2(FractionBits(v)) + l.u
            /\ (l.pc = "loop" /\ l.path = "none") =>
                  /\ Triples(v) = AllTriples(v)
                  /\ Cardinality(Triples(v)) = Cardinality(Words)

\* The word of all ones has been split in a symmetric variant: the sign is
\* set, the index is the last cell and the fraction is the largest.
AllOnesSplit ==
    /\ IsSymmetric(sampler.variant)
    /\ rng[1].site = "r" /\ rng[1].last = UMAX
    /\ loc[1].s = SMask /\ loc[1].i = SIZE - 1 /\ loc[1].u = UMask(sampler.variant)

\* C8: in the symmetric variants, over tables whose nodes increase from x0
\* and with an envelope that returns values at or beyond the cut-in, the
\* candidate handed to the sign fold (alpha * u + beta on the fast path,
\* beta + t * dx after a wedge test, x - x0 from the tail) is never
\* negative, and the XOR with s gives the candidate when the sign bit is
\* clear and its opposite when it is set.
CandidateNonNegative ==
    \A t \in Threads :
        (IsSymmetric(sampler.variant) /\ loc[t].pc = "done") =>
            /\ loc[t].path \in {"fast", "wedge", "tail"}
            /\ loc[t].cand >= 0
            /\ bitxor(loc[t].cand, loc[t].s) = (IF loc[t].s = 0 THEN loc[t].cand ELSE -loc[t].cand)
            /\ loc[t].ret = Fold(sampler, loc[t].cand, loc[t].s)

\* A positive candidate of the tail has been negated by the sign fold.
TailCandidateNegated ==
    \E t \in Threads :
        /\ sampler.variant = "DistCentralTailed"
        /\ loc[t].pc = "done" /\ loc[t].path = "tail"
        /\ loc[t].s # 0 /\ loc[t].cand > 0 /\ loc[t].ret = -loc[t].cand

-----------------------------------------------------------------------------
(* Properties of the Newton tabulation. *)

\* The listed extrema that lie strictly inside cell i of the nodes x.
Inside(p, x, i) ==
    {e \in {p.x_extrema[k] : k \in 1..Len(p.x_extrema)} :
        Min(x[i], x[i + 1]) < e /\ e < Max(x[i], x[i + 1])}

\* ysup[i] of the returned table is not below the function at a listed
\* extremum inside cell i.
AboveExtrema ==
    \A i \in 0..(SIZE - 1) :
        \A e \in Inside(newton.p, newton.table.x, i) :
            ~XLt(newton.table.ysup[i], FnEval(newton.p.func, e))

WithinTolerance(p, ev) ==
    LET spread == XSub(ev.max_area, ev.min_area)
        allowed == XMul(p.tolerance, ev.mean_area)
    IN  spread # NAN /\ allowed # NAN /\ spread <= allowed

\* The areas of the iterate ev differ by less than tolerance times their
\* mean.
StrictlyWithinTolerance(p, ev) ==
    LET spread == XSub(ev.max_area, ev.min_area)
        allowed == XMul(p.tolerance, ev.mean_area)
    IN  spread # NAN /\ allowed # NAN /\ spread < allowed

\* C10, as stated: an iterate at which max_area - min_area <= tolerance *
\* mean_area, equality included, makes newton_tabulation return its table.
AcceptsAtEquality ==
    [][(newton.pc = "loop" /\ WithinTolerance(newton.p, Evaluate(newton.p, newton.x)))
          => newton'.pc = "ok"]_vars

\* C10, amended: newton_tabulation returns its table at an iterate exactly
\* when max_area - min_area < tolerance * mean_area there, equality
\* excluded, so that the table is returned at the first such iterate and a
\* call with tolerance 0 returns no table.
AcceptsStrictlyWithin ==
    [][newton.pc = "loop"
          => /\ (newton'.pc = "ok")
                  <=> StrictlyWithinTolerance(newton.p, Evaluate(newton.p, newton.x))
             /\ (newton'.pc = "ok") => newton.p.tolerance # 0]_vars

\* A call with tolerance 0 on a partition whose rectangles all have exactly
\* the same area has failed after Newton updates that left the nodes in
\* place.
EqualAreasRejected ==
    /\ newton.pc = "err"
    /\ newton.p.tolerance = 0
    /\ newton.updates >= 1
    /\ newton.x = newton.p.x_init
    /\ LET ev == Evaluate(newton.p, newton.p.x_init)
       IN  ev.max_area = ev.min_area /\ ev.max_area > 0

\* The call has returned, with a table or with ConvergenceFailure.
NewtonDone == newton.pc \in {"ok", "err"}

\* C11: newton_tabulation returns ConvergenceFailure, and no table, exactly
\* when a convergence test has failed and either max_iter updates have been
\* applied or the mean area is NaN.  Every iteration of its loop makes one
\* convergence test, an iteration that does not return makes one update,
\* and the iteration that finds max_iter updates made returns: the call
\* returns after at most max_iter updates and max_iter + 1 tests, and with
\* max_iter = 0 after one test and no update.
FailsExactlyWhenExhausted ==
    /\ [][newton.pc = "loop"
            => LET ev == Evaluate(newton.p, newton.x)
               IN  (newton'.pc = "err")
                       <=> /\ ~StrictlyWithinTolerance(newton.p, ev)
                           /\ \/ newton.updates = newton.p.max_iter
                              \/ ev.mean_area = NAN]_vars
    /\ [][newton.pc = "loop"
          => /\ newton'.tests = newton.tests + 1
             /\ newton'.updates = IF newton'.pc = "loop" THEN newton.updates + 1
                                   ELSE newton.updates
             /\ newton.updates = newton.p.max_iter => newton'.pc # "loop"]_vars
    /\ [](newton.pc = "err" => newton.table = <<>>)
    /\ [](newton.updates <= newton.p.max_iter /\ newton.tests <= newton.p.max_iter + 1)
    /\ [](newton.pc = "loop" => newton.tests = newton.updates)
    /\ [](NewtonDone => newton.tests = newton.updates + 1)
    /\ [](NewtonDone /\ newton.p.max_iter = 0 => newton.tests = 1 /\ newton.updates = 0)

\* A call has failed on a mean area that is NaN, with updates left.
FailedOnNaN ==
    /\ newton.pc = "err"
    /\ newton.updates < newton.p.max_iter
    /\ newton.tests = newton.updates + 1
    /\ Evaluate(newton.p, newton.x).mean_area = NAN

\* The node v lies in the closed interval bounded by a and b.
Between(v, a, b) == v # NAN /\ Min(a, b) <= v /\ v <= Max(a, b)

Proposed(p, x) ==
    LET r == Residuals(x, Evaluate(p, x))
        dx == solve_tma(r.ds_dxl, r.ds_dxc, r.ds_dxr, r.minus_s)
    IN  [i \in 1..(SIZE - 1) |-> XAdd(x[i], XMul(p.relaxation, dx[i - 1]))]

IdempotentOnOutput ==
    newton.prev # <<>>
        => \/ newton.pc = "loop" /\ newton.tests = 0 /\ newton.updates = 0
           \/ /\ newton.pc = "ok" /\ newton.tests = 1 /\ newton.updates = 0
              /\ newton.table = newton.prev.table

\* A call with max_iter = 0 has returned the table of an earlier call that
\* had to update the nodes, and the table has cells.
SecondCallReturned ==
    /\ newton.prev # <<>> /\ newton.pc = "ok"
    /\ newton.p.max_iter = 0
    /\ newton.prev.updates >= 1
    /\ \A i \in 0..(SIZE - 1) : newton.table.x[i] # newton.table.x[i + 1]

-----------------------------------------------------------------------------
(* Properties of the constructors. *)

\* The call c gives a non-positive standard deviation or scale to Normal,
\* CentralNormal, Cauchy, Gumbel or Gamma.
NonPositiveScale(c) ==
    c.ctor \in {"Normal", "CentralNormal", "Cauchy", "Gumbel", "Gamma"} /\ XLe(c.b, 0)

\* C14: a constructor called with a non-positive standard deviation or
\* scale returns its invalid-parameter variant (BadStdDev for the normal
\* distributions, BadScale for Cauchy and Gumbel, BadScale or BadShape for
\* gamma), never TabulationFailure and never a sampler, and runs neither
\* the pre-partition nor the Newton tabulator.
RejectedBeforeTabulation ==
    NonPositiveScale(build.call)
        => /\ build.pc \in {"entry", "done"}
           /\ build.ran = <<>>
           /\ build.inner.variant = "none"
           /\ build.pc = "done"
                  => build.result \in
                         CASE build.call.ctor \in {"Normal", "CentralNormal"} -> {"BadStdDev"}
                           [] build.call.ctor = "Gamma" -> {"BadShape", "BadScale"}
                           [] OTHER -> {"BadScale"}

\* Gumbel::new has returned BadScale for a scale of zero.
ZeroScaleRejected ==
    /\ build.pc = "done"
    /\ build.call.ctor = "Gumbel" /\ build.call.b = 0
    /\ build.result = "BadScale"

\* C15: Gamma::new with a positive scale returns BadShape only for a shape
\* that is not positive; with a shape in (0, 1) it builds the small-shape
\* sampler and with a shape of 1 or more the large-shape sampler.
GammaAcceptsPositiveShape ==
    (build.pc = "done" /\ build.call.ctor = "Gamma" /\ XLt(0, build.call.b))
        => /\ (build.result = "BadShape") <=> XLe(build.call.a, 0)
           /\ build.result = "Ok"
                  => build.inner.gamma = IF XLt(build.call.a, ONE)
                                         THEN "SmallShapeGamma" ELSE "LargeShapeGamma"

\* C16: ChiSquared::new(k) returns its invalid-parameter variant only for
\* k <= 0, and so accepts k = 0.5 and k = 2.
ChiSquaredAcceptsPositiveDof ==
    (build.pc = "done" /\ build.call.ctor = "ChiSquared")
        => ((build.result = "BadDof") <=> XLe(build.call.a, 0))

\* C17: every sampler that a constructor returns has a partition size that
\* is marked valid for its float width and its symmetry.
LegalPartitionSize ==
    build.result = "Ok"
        => build.inner.size \in
               IF IsSymmetric(build.inner.variant)
               THEN ValidSymmetricPartitionSize(build.inner.width)
               ELSE ValidPartitionSize(build.inner.width)

-----------------------------------------------------------------------------
(* Properties of the tail switch. *)

\* The sum over the cells of (x[i+1] - x[i]) * ysup[i], in quarters: the
\* nodes and ordinates of the tables of SwitchSpec are whole halves.
RECURSIVE ExactArea(_, _)
ExactArea(it, n) ==
    IF n = 0 THEN 0
    ELSE ExactArea(it, n - 1)
             + ((it.x[n] - it.x[n - 1]) \div ONE_HALF) * (it.ysup[n - 1] \div ONE_HALF)

\* tail_switch is within 1/2 of max_switch * A / (A + tail_area).
NearestToExact(tail_switch, max_switch, area, tail_area) ==
    LET d == tail_switch * (area + tail_area) - max_switch * area
    IN  2 * Abs(d) <= area + tail_area

\* C18, as stated: the tail switch of a tailed sampler is within 1/2 of
\* max_switch * A / (A + tail_area), and lies in 0 .. max_switch; a sampler
\* without a tail has tail_switch = max_switch.
TailSwitchExact ==
    build.pc = "built"
        => IF IsTailed(build.variant)
           THEN /\ 0 <= sampler.tail_switch
                /\ sampler.tail_switch <= MaxSwitch(build.variant)
                /\ NearestToExact(sampler.tail_switch, MaxSwitch(build.variant),
                                  ExactArea(build.it, SIZE),
                                  build.tail_area \div (ONE \div 4))
           ELSE sampler.tail_switch = MaxSwitch(build.variant)

\* The quotient A / (A + tail_area) as compute_tail_switch computes it.
AreaQuotient(it, tail_area) ==
    FDiv(AreaUpTo(it, SIZE), FAdd(AreaUpTo(it, SIZE), tail_area))

\* C18, amended: the tail switch of a tailed sampler is the product of
\* max_switch and A / (A + tail_area) as the floats compute it: it lies in
\* 0 .. max_switch + 1, and is max_switch + 1 only when max_switch is not a
\* float and the quotient is rounded to 1; a sampler without a tail has
\* tail_switch = max_switch.
TailSwitchRounded ==
    build.pc = "built"
        => IF IsTailed(build.variant)
           THEN /\ 0 <= sampler.tail_switch
                /\ sampler.tail_switch <= MaxSwitch(build.variant) + 1
                /\ sampler.tail_switch > MaxSwitch(build.variant)
                       => /\ cast_uint(MaxSwitch(build.variant))
                                 # MaxSwitch(build.variant) * ONE
                          /\ AreaQuotient(build.it, build.tail_area) = ONE
           ELSE sampler.tail_switch = MaxSwitch(build.variant)

\* A tailed sampler built with a tail area of zero has a tail switch of
\* max_switch + 1.
TailSwitchAboveMax ==
    /\ build.pc = "built" /\ IsTailed(build.variant)
    /\ build.tail_area = 0
    /\ ExactArea(build.it, SIZE) > 0
    /\ sampler.tail_switch = MaxSwitch(build.variant) + 1

\* C19: the nodes midpoint_prepartition returns for a strictly positive
\* function and x0 < x1 start at x0, end at x1 and never decrease from one
\* node to the next.
PrepartitionNonDecreasing ==
    build.pc = "nodes" =>
        /\ build.x[0] = build.call.x0
        /\ build.x[build.call.n] = build.call.x1
        /\ \A i \in 0..(build.call.n - 1) : build.x[i] <= build.x[i + 1]

\* C20: a Central sampler and the Symmetric sampler built with x0 = 0 from
\* the same table, function, envelope and tail area, driven by the same
\* words, are at the same place after every draw: same branch (fast path,
\* tail, wedge, restart), same number of words consumed, same extracted
\* u, i and sign, same candidate and same returned value.
CentralIsSymmetricAtZero ==
    build.pc = "twin" =>
        /\ build.sm.x0 = 0
        /\ build.sm.data = sampler.data
        /\ build.sm.tail_switch = sampler.tail_switch
        /\ loc[1] = loc[2]

\* Both samplers have returned a negative value from the tail branch.
TwinsReturnedFromTail ==
    /\ build.pc = "twin"
    /\ \A t \in {1, 2} : /\ loc[t].pc = "done"
                          /\ loc[t].path = "tail"
                          /\ loc[t].s # 0
                          /\ loc[t].ret < 0

\* The margin of the comparison of C21: a and b * g(x) differ, in exact
\* arithmetic, by more than one part in 2^(SIGNIFICAND_BITS - 1).
Margin == Pow2(SIGNIFICAND_BITS - 1)
ClearlyAbove == Margin * build.call.a * ONE > (Margin + 1) * build.call.b * build.denominator
ClearlyBelow == (Margin + 1) * build.call.a * ONE < Margin * build.call.b * build.denominator

\* C21 (as stated): the overridden test of the Cauchy density gives, on
\* every x and all strictly positive a and b, the same answer as the default
\* a * eval(x) > b.
CauchyTestsAgree == build.pc = "tested" => build.override = build.default

\* C21 (amended): the overridden test performs no division, and it gives the
\* answer of the exact comparison a > b * g(x), as the default test does,
\* whenever a and b * g(x) differ by more than the rounding of the two forms.
CauchyTestsAgreeUpToRounding ==
    build.pc = "tested" =>
        /\ \A k \in DOMAIN build.ops : build.ops[k] # "div"
        /\ ClearlyAbove => build.override /\ build.default
        /\ ClearlyBelow => ~build.override /\ ~build.default

\* The override has accepted, away from the location, a point that is
\* clearly under the curve, and the default test accepts it too.
CauchyAcceptedOffCentre ==
    /\ build.pc = "tested"
    /\ build.call.dx # 0
    /\ ClearlyAbove
    /\ build.override
    /\ build.default

\* C22 (as stated): a call that returns after k iterations of the sampling
\* loop has drawn exactly k words.
OneWordPerIteration ==
    \A t \in Threads : loc[t].pc = "done" => loc[t].nwords = loc[t].niter

\* C22 (amended): every iteration draws one word for r; the fast path draws
\* no other, a wedge test draws one more (Float::gen) and a tail draw two
\* more (try_sample of the envelope), after which the iteration ends.  A
\* call that returns after k iterations has drawn between k and 3k words.
WordsPerIteration ==
    /\ [][\A t \in Threads :
            (loc'[t] # loc[t] /\ loc[t].pc # "done") =>
                /\ loc'[t].nwords = loc[t].nwords + 1
                /\ loc'[t].niter = loc[t].niter + (IF loc[t].pc = "loop" THEN 1 ELSE 0)
                /\ loc[t].pc = "loop" =>
                       /\ loc'[t].pc \in {"done", "wedge", "tail", "panic"}
                       /\ loc'[t].pc = "done" => loc'[t].path = "fast"
                /\ loc[t].pc = "wedge" => loc'[t].pc \in {"done", "loop", "panic"}
                /\ loc[t].pc = "tail" => loc'[t].pc = "tail_accept"
                /\ loc[t].pc = "tail_accept" => loc'[t].pc \in {"done", "loop"}]_vars
    /\ [](\A t \in Threads :
            loc[t].pc \in {"done", "loop"} =>
                /\ loc[t].niter <= loc[t].nwords
                /\ loc[t].nwords <= 3 * loc[t].niter)

\* A call has returned from the tail branch of its first iteration, having
\* drawn three words.
ThreeWordsInOneIteration ==
    \E t \in Threads :
        /\ loc[t].pc = "done"
        /\ loc[t].path = "tail"
        /\ loc[t].niter = 1
        /\ loc[t].nwords = 3

\* The threshold 2^(SIGNIFICAND_BITS - 1) of C23, and the cells of a
\* compiled table that took the baseline branch and the degraded branch.
Threshold == Pow2(SIGNIFICAND_BITS - 1) * ONE
Baseline(i) ==
    LET w == Weight(build.it, build.tail_switch, i)
        d == build.data.table[i]
    IN  /\ w > 0
        /\ d.wedge_switch = round_as_uint(w)
        /\ d.alpha = FDiv(FSub(build.it.x[i + 1], build.it.x[i]), w)
Degraded(i) ==
    build.data.table[i].wedge_switch = 0 /\ build.data.table[i].alpha = 0

\* What C23 says of beta and of the sentinel cell.
BetasAndSentinel ==
    /\ \A i \in 0..SIZE : build.data.table[i].beta = FSub(build.it.x[i], build.x0)
    /\ build.data.table[SIZE].alpha = 0
    /\ build.data.table[SIZE].wedge_switch = 0

\* C23 (as stated): a cell is compiled with wedge_switch = round(w) and
\* alpha = (x[i+1] - x[i]) / w exactly when w >= 2^(SIGNIFICAND_BITS - 1),
\* and with wedge_switch = 0 and alpha = 0 otherwise; beta[i] = x[i] - x0 in
\* every cell and the sentinel has alpha = 0 and wedge_switch = 0.
CompiledExactlyAtThreshold ==
    build.pc = "compiled" =>
        /\ \A i \in 0..(SIZE - 1) :
              IF Weight(build.it, build.tail_switch, i) >= Threshold
              THEN Baseline(i) ELSE Degraded(i)
        /\ BetasAndSentinel

\* C23 (amended): every cell with w >= 2^(SIGNIFICAND_BITS - 1) has
\* wedge_switch = round(w) and alpha = (x[i+1] - x[i]) / w; every cell with
\* w below the last float under 2^(SIGNIFICAND_BITS - 1) has wedge_switch = 0
\* and alpha = 0, which includes the cells with yinf = 0 and, the tail switch
\* being below 2^(2 * SIGNIFICAND_BITS - 3), the cells with
\* yinf / ysup < 2^-(SIGNIFICAND_BITS - 1); a cell with w in between is
\* compiled one way or the other, as the rounding of log2(w) decides;
\* beta[i] = x[i] - x0 in every cell and the sentinel has alpha = 0 and
\* wedge_switch = 0.
CompiledAboutThreshold ==
    build.pc = "compiled" =>
        /\ \A i \in 0..(SIZE - 1) :
              LET w == Weight(build.it, build.tail_switch, i)
              IN  /\ w >= Threshold => Baseline(i)
                  /\ w < Threshold - Threshold \div Pow2(SIGNIFICAND_BITS + 1) => Degraded(i)
                  /\ Baseline(i) \/ Degraded(i)
                  /\ build.it.yinf[i] = 0 => Degraded(i)
                  /\ (/\ build.tail_switch < Pow2(2 * SIGNIFICAND_BITS - 3)
                      /\ build.it.yinf[i] * Pow2(SIGNIFICAND_BITS - 1) < build.it.ysup[i])
                         => Degraded(i)
        /\ BetasAndSentinel

\* A table has been compiled about an origin other than 0 with a cell on
\* the baseline branch, a cell with yinf > 0 on the degraded branch and a
\* cell with yinf = 0.
CompiledBothWays ==
    /\ build.pc = "compiled"
    /\ build.x0 # 0
    /\ \E i, j, k \in 0..(SIZE - 1) :
          /\ Weight(build.it, build.tail_switch, i) >= Threshold
          /\ build.data.table[i].wedge_switch > 0
          /\ build.it.yinf[j] > 0
          /\ build.data.table[j].wedge_switch = 0
          /\ build.it.yinf[k] = 0

\* The largest of the values of f at the two nodes of cell i and at the
\* listed extrema inside the cell.
CellMaximum(p, x, i) ==
    LET S == {FnEval(p.func, x[i]), FnEval(p.func, x[i + 1])}
             \cup {FnEval(p.func, e) : e \in Inside(p, x, i)}
    IN  CHOOSE v \in S : \A u \in S : u <= v

\* C24: at every iterate, ysup[i] is the largest of f(x[i]), f(x[i+1]) and
\* f(e) for the listed extrema e inside cell i (none is skipped); both
\* partial derivatives of ysup[i] are zero when an extremum dominates, and
\* otherwise the one of the dominating node is f' at that node (zero at a
\* boundary node, which does not move) and the other is zero.
SupremumIsCellMaximum ==
    newton.pc = "loop" =>
        LET ev == Evaluate(newton.p, newton.x)
            dy_dx == NodeSlopes(newton.p.func, newton.x)
        IN  (\A k \in 0..SIZE : ev.y[k] # NAN) =>
                \A i \in 0..(SIZE - 1) :
                    /\ ev.ysup[i] = CellMaximum(newton.p, newton.x, i)
                    /\ IF ev.ysup[i] > Max(ev.y[i], ev.y[i + 1])
                       THEN ev.dysup_dxl[i] = 0 /\ ev.dysup_dxr[i] = 0
                       ELSE IF ev.y[i] > ev.y[i + 1]
                       THEN ev.dysup_dxl[i] = dy_dx[i] /\ ev.dysup_dxr[i] = 0
                       ELSE ev.dysup_dxl[i] = 0 /\ ev.dysup_dxr[i] = dy_dx[i + 1]

\* The nodes x run strictly upwards or strictly downwards.
StrictlyMonotonic(x) ==
    \/ \A i \in 0..(SIZE - 1) : XLt(x[i], x[i + 1])
    \/ \A i \in 0..(SIZE - 1) : XGt(x[i], x[i + 1])

\* The nodes x are numbers that run in the direction from a to b,
\* consecutive nodes being allowed to coincide.
RunsAlong(x, a, b) ==
    /\ \A i \in 0..SIZE : x[i] # NAN
    /\ \A i \in 0..(SIZE - 1) :
           IF a < b THEN x[i] <= x[i + 1] ELSE x[i] >= x[i + 1]

\* C25: started from a strictly monotonic partition, the nodes are strictly
\* monotonic at every iterate: no two consecutive nodes coincide or cross.
NodesStayStrictlyMonotonic ==
    StrictlyMonotonic(newton.p.x_init) => StrictlyMonotonic(newton.x)

\* C25, amended: started from a strictly monotonic partition, the nodes are
\* monotonic at every iterate, in the direction of the initial partition,
\* and the two end nodes stay where they were: no two consecutive nodes
\* cross, but consecutive nodes can coincide.
NodesStayMonotonic ==
    StrictlyMonotonic(newton.p.x_init)
        => /\ RunsAlong(newton.x, newton.p.x_init[0], newton.p.x_init[SIZE])
           /\ newton.x[0] = newton.p.x_init[0]
           /\ newton.x[SIZE] = newton.p.x_init[SIZE]

\* An update step has left two consecutive nodes of a partition that started
\* strictly monotonic on the same point.
NodesCoincide ==
    /\ StrictlyMonotonic(newton.p.x_init)
    /\ newton.updates >= 1
    /\ \E i \in 0..(SIZE - 1) : newton.x[i] = newton.x[i + 1]

\* The wedge test of the call has been made, with the word rng[1].last.
WedgeTested == build.pc = "wedge" /\ loc[1] # build.l

\* The wedge test has accepted the candidate.
WedgeAccepted == loc[1].pc = "done" /\ loc[1].path = "wedge"

\* The candidate x of the wedge test, as the function sees it, and f(x).
WedgeX ==
    LET d == sampler.data.table[build.l.i]
        dx == FSub(sampler.data.table[build.l.i + 1].beta, d.beta)
    IN  FAdd(sampler.x0, FAdd(d.beta, FMul(FloatGen(rng[1].last), dx)))
WedgeFx == FnEval(sampler.func, WedgeX)

\* f(x) * tail_switch and ysup[i] * u, in exact arithmetic: the first is
\* the larger one exactly when f(x) > ysup[i] * u / tail_switch.
HeightOfCurve == WedgeFx * sampler.tail_switch
HeightOfPoint == build.it.ysup[build.l.i] * build.l.u

\* C26 (as stated): on a table of rectangles of exactly equal areas, the
\* wedge test of any cell i accepts exactly when
\* f(x) > ysup[i] * u / tail_switch.
WedgeTestIsHeightTest ==
    WedgeTested => (WedgeAccepted <=> HeightOfCurve > HeightOfPoint)

\* The two heights differ, in exact arithmetic, by more than one part in
\* 2^(SIGNIFICAND_BITS - 1), which is more than the roundings of the test
\* add up to.
ClearlyUnderCurve == Margin * HeightOfCurve > (Margin + 1) * HeightOfPoint
ClearlyOverCurve == (Margin + 1) * HeightOfCurve < Margin * HeightOfPoint

\* C26 (amended): on a table of rectangles of exactly equal areas, the
\* wedge test of any cell i, scaled by the area of cell 0, accepts when
\* f(x) is above ysup[i] * u / tail_switch and rejects when it is below,
\* whenever the two differ by more than the rounding of the test.
WedgeTestIsHeightTestUpToRounding ==
    WedgeTested =>
        /\ ClearlyUnderCurve => WedgeAccepted
        /\ ClearlyOverCurve => ~WedgeAccepted

\* The wedge test has accepted a point clearly under the curve in a cell
\* other than cell 0, whose width is not that of cell 0.
WedgeAcceptedBeyondFirstCell ==
    /\ WedgeTested
    /\ build.l.i > 0
    /\ build.it.x[build.l.i + 1] - build.it.x[build.l.i] # build.it.x[1] - build.it.x[0]
    /\ ClearlyUnderCurve
    /\ WedgeAccepted

\* C27 (as stated): try_sample of the normal tail makes one round of two
\* draws; it returns a value iff y >= x^2 and no-value otherwise, so that
\* the outer loop restarts.
NormalTailSingleRound ==
    [][build.pc = "y" =>
          /\ build.rounds = 0
          /\ IF build'.y >= FMul(build.x, build.x)
             THEN build'.pc = "some" ELSE build'.pc = "none"]_vars

\* C27 (amended): try_sample of the normal tail draws two ln(1 - u) values
\* per round; a round returns cut_in - x iff y >= x^2, and otherwise the
\* loop of try_sample makes another round with two new draws: no-value is
\* never returned, and the outer loop is not restarted.
NormalTailRetriesItself ==
    /\ [][build.pc = "y" =>
            IF build'.y >= FMul(build.x, build.x)
            THEN /\ build'.pc = "some"
                 /\ build'.ret = FSub(build.tail.cut_in, build.x)
                 /\ build'.rounds = build.rounds
            ELSE /\ build'.pc = "x"
                 /\ build'.rounds = build.rounds + 1]_vars
    /\ [](build.pc # "none")
    /\ [](build.pc = "some" => build.ret >= build.tail.cut_in)

\* A value beyond the cut-in has been returned by the third round of a call,
\* after two rounds whose test failed.
NormalTailReturnedAfterRetries ==
    /\ build.pc = "some"
    /\ build.rounds = 2
    /\ build.ret > build.tail.cut_in

\* C28 (as stated): every compiled cell of every sampler has
\* wedge_switch[i] <= tail_switch, tail_switch being the threshold handed to
\* process_table.
WedgeSwitchWithinTailSwitch ==
    sampler.variant \in Variants =>
        \A i \in 0..(SIZE - 1) : sampler.data.table[i].wedge_switch <= sampler.tail_switch

\* The region of the fractions u of cell i that the loop sends to the fast
\* path, to the tail and to the wedge test.
FastRegion(i) == {u \in 0..UMask(sampler.variant) : FastPath(sampler.data.table[i], u)}
TailRegion(i) == {u \in 0..UMask(sampler.variant) : u > sampler.tail_switch}
WedgeRegion(i) ==
    {u \in 0..UMask(sampler.variant) :
        u > sampler.data.table[i].wedge_switch /\ u <= sampler.tail_switch}

\* C28 (amended): every compiled cell has wedge_switch[i] <= tail_switch as a
\* float, that is wedge_switch[i] <= round(cast(tail_switch)), and
\* wedge_switch[i] <= tail_switch itself in the tailed variants, whose
\* tail_switch is a float.  Hence, in the tailed variants, no word whose
\* fraction is above tail_switch is accepted by the fast path, the three
\* regions of u are pairwise disjoint and cover [0, max_switch], and every
\* iteration takes the path of the region of its fraction.
WedgeSwitchWithinFloatOfTailSwitch ==
    sampler.variant \in Variants =>
        /\ \A i \in 0..(SIZE - 1) :
              /\ sampler.data.table[i].wedge_switch
                     <= round_as_uint(cast_uint(sampler.tail_switch))
              /\ IsTailed(sampler.variant) =>
                     /\ sampler.data.table[i].wedge_switch <= sampler.tail_switch
                     /\ FastRegion(i) \cap TailRegion(i) = {}
                     /\ FastRegion(i) \cap WedgeRegion(i) = {}
                     /\ WedgeRegion(i) \cap TailRegion(i) = {}
                     /\ FastRegion(i) \cup WedgeRegion(i) \cup TailRegion(i)
                            = 0..UMask(sampler.variant)
        /\ \A t \in Threads :
              (IsTailed(sampler.variant) /\ loc[t].i \in 0..(SIZE - 1)) =>
                  /\ (loc[t].pc = "done" /\ loc[t].path = "fast")
                         => loc[t].u \in FastRegion(loc[t].i)
                  /\ loc[t].pc = "wedge" => loc[t].u \in WedgeRegion(loc[t].i)
                  /\ loc[t].pc = "tail" => loc[t].u \in TailRegion(loc[t].i)

\* A tailed sampler has returned from the fast path of a cell whose
\* wedge_switch equals tail_switch, on the fraction u = tail_switch.
FastPathAtTailSwitch ==
    \E t \in Threads :
        /\ IsTailed(sampler.variant)
        /\ loc[t].pc = "done" /\ loc[t].path = "fast"
        /\ loc[t].i \in 0..(SIZE - 1)
        /\ Cell(t).wedge_switch = sampler.tail_switch
        /\ loc[t].u = sampler.tail_switch

\* The value of the fast path of the compiled cell d on the fraction u,
\* without the fma feature.
FastValue(d, u) == FAdd(FMul(d.alpha, cast_uint(u)), d.beta)

\* C29: every value produced by the rectangular fast path for a compiled
\* cell i lies inside that cell: for every fraction u <= wedge_switch[i],
\* beta[i] <= alpha[i] * u + beta[i] <= beta[i + 1].
FastPathStaysInCell ==
    build.pc = "compiled" =>
        \A i \in 0..(SIZE - 1) :
            \A u \in 0..build.data.table[i].wedge_switch :
                /\ build.data.table[i].beta <= FastValue(build.data.table[i], u)
                /\ FastValue(build.data.table[i], u) <= build.data.table[i + 1].beta

\* C30: for a strictly positive f, any grid count m >= 1 and any partition
\* size, the cursor rect into the m midpoint values never exceeds m - 1:
\* midpoint_prepartition does not panic on an index out of range, also when
\* m is below the partition size.
CursorStaysInGrid ==
    (build.pc \in {"nodes", "panic"} /\ build.call.m >= 1) =>
        /\ build.pc # "panic"
        /\ build.rect <= build.call.m - 1

====
